---- MODULE Spec2Model ----
(***************************************************************************)
(* Regression and gate evaluation engine of locomotive                      *)
(* (src/locomotive/analyzer.py, src/locomotive/gate.py).                    *)
(*                                                                         *)
(* Python floats are modelled as exact rationals <<n, d>> (d > 0, reduced), *)
(* Python None as the empty tuple.  Values of a metric mapping are raw JSON *)
(* values: a missing key, null, a non-numeric string, a list, a number or a *)
(* string that float() parses.                                             *)
(***************************************************************************)
EXTENDS Integers, Sequences, FiniteSets, TLC

VARIABLES
    pc,         \* position of the driver: "start" (inputs drawn), "done" (evaluated)
    rule,       \* the Rule given to evaluate_rule
    current,    \* the current metric mapping
    baseline,   \* the baseline metric mapping
    result,     \* the result returned by evaluate_rule or _evaluate_threshold
    call,       \* the arguments of a call of _evaluate_threshold
    metrics,    \* evaluate_gate: the metric mapping
    gate_cfg,   \* evaluate_gate: the gate configuration
    mode,       \* evaluate_gate: "resilience" or "acceptance"
    history_summary,    \* evaluate_gate: the warm-up summary, or None
    gate_eval,  \* what evaluate_gate returned
    rules,      \* the rules of the analyze command
    baseline_id,    \* the analyze command: the baseline run id, or None
    verdict,    \* what analyze returned
    combined,   \* the verdict merge_results built from the result sets
    command,    \* the command that runs: "analyze" or "ci"
    metrics_exist,  \* the run's metrics file exists
    returncode, \* ci: the return code of the locust run
    args,       \* the command line options
    analysis_cfg,   \* the analysis section of the configuration
    exit_code,  \* what the command returned
    inline_rules,   \* _analyze: the rules entry of the configuration, as written
    error,      \* the exception a call raised, or None
    history,    \* summarize_history: the rows of the stats history
    warmup,     \* summarize_history: warmup_seconds
    stored,     \* the runs list of history.json
    appended,   \* the entries given to append_to_history so far, in call order
    max_runs,   \* append_to_history: the configured limit
    run_id,     \* ci: the id of the run
    baseline_pointer,   \* the content of baseline.json, or None (no file)
    again,      \* what a second call of analyze returned
    clock       \* what utc_now() returns next

vars == <<pc, rule, current, baseline, result, call,
          metrics, gate_cfg, mode, history_summary, gate_eval,
          rules, baseline_id, verdict, combined,
          command, metrics_exist, returncode, args, analysis_cfg, exit_code,
          inline_rules, error,
          history, warmup, stored, appended, max_runs, run_id, baseline_pointer,
          again, clock>>

----------------------------------------------------------------------------
(* Bounds of the model *)

MaxVal == 2         \* numeric metric values range over -MaxVal..MaxVal
MaxThresholds == 2  \* entries of a gate's thresholds mapping
MaxRules == 2       \* rules of one analyze call
MaxAppends == 4     \* calls of append_to_history in one behaviour

----------------------------------------------------------------------------
(* Python values *)

None == <<>>

Abs(n) == IF n < 0 THEN -n ELSE n

RECURSIVE Gcd(_, _)
Gcd(a, b) == IF b = 0 THEN a ELSE Gcd(b, a % b)

\* the rational n/d (d # 0) in canonical form
Frac(n, d) ==
    LET g == Gcd(Abs(n), Abs(d))
        s == IF d < 0 THEN -1 ELSE 1
    IN  <<(s * n) \div g, (s * d) \div g>>

Float(n) == <<n, 1>>

FAdd(a, b) == Frac(a[1] * b[2] + b[1] * a[2], a[2] * b[2])
FSub(a, b) == Frac(a[1] * b[2] - b[1] * a[2], a[2] * b[2])
FMul(a, b) == Frac(a[1] * b[1], a[2] * b[2])
FDiv(a, b) == Frac(a[1] * b[2], a[2] * b[1])
FNeg(a)    == <<-a[1], a[2]>>
FGe(a, b)  == a[1] * b[2] >= b[1] * a[2]
FGt(a, b)  == a[1] * b[2] > b[1] * a[2]
FLe(a, b)  == FGe(b, a)
FLt(a, b)  == FGt(b, a)
\* Python max(a, b): b only when b > a
FMax(a, b) == IF FGt(b, a) THEN b ELSE a

\* raw JSON values of a mapping entry
Absent      == [kind |-> "absent",  v |-> 0, d |-> 1]    \* key not in the mapping
Null        == [kind |-> "null",    v |-> 0, d |-> 1]    \* None
Text        == [kind |-> "text",    v |-> 0, d |-> 1]    \* "abc": float() raises ValueError
ListV       == [kind |-> "list",    v |-> 0, d |-> 1]    \* []: float() raises TypeError
Num(n)      == [kind |-> "num",     v |-> n, d |-> 1]    \* a JSON integer
NumFrac(n, d) == [kind |-> "num",   v |-> n, d |-> d]    \* the JSON number n/d
NumText(n)  == [kind |-> "numtext", v |-> n, d |-> 1]    \* "1": float() parses it

\* dict.get(key): a missing key reads as None
Get(map, key) ==
    IF key \notin DOMAIN map THEN Null
    ELSE IF map[key].kind = "absent" THEN Null
    ELSE map[key]

----------------------------------------------------------------------------
(* analyzer.py *)

\* mutant: a missing key or null is read as 0.0 instead of None
_safe_float_missing_zero(value) ==
    IF value.kind \in {"null", "absent"} THEN Float(0)
    ELSE IF value.kind \in {"num", "numtext"} THEN Frac(value.v, value.d)
    ELSE None

\* mutant: a value float() rejects is read as 0.0 instead of None
_safe_float_zero(value) ==
    IF value.kind = "null" THEN None
    ELSE IF value.kind \in {"num", "numtext"} THEN Frac(value.v, value.d)
    ELSE Float(0)

_safe_float(value) ==
    IF value.kind = "null" THEN None
    ELSE IF value.kind \in {"num", "numtext"} THEN Frac(value.v, value.d)
    ELSE None   \* TypeError, ValueError

\* mutant: the magnitude is the size of the change, whatever its direction
_relative_change_any_direction(cur, base, direction) ==
    IF base = Float(0) THEN <<None, None>>
    ELSE LET delta == FMul(FDiv(FSub(cur, base), base), Float(100))
         IN  <<delta, FMax(delta, FNeg(delta))>>

\* <<delta, magnitude>>
_relative_change(cur, base, direction) ==
    IF base = Float(0) THEN <<None, None>>
    ELSE LET delta == FMul(FDiv(FSub(cur, base), base), Float(100))
             magnitude == IF direction = "increase"
                          THEN FMax(Float(0), delta)
                          ELSE FMax(Float(0), FNeg(delta))
         IN  <<delta, magnitude>>

\* mutant: only a missing baseline is tested, a zero baseline goes on
baseline_unusable_none_only(baseline_value) == baseline_value = None

\* the baseline test of relative mode: baseline_value in (None, 0)
baseline_unusable(baseline_value) == baseline_value \in {None, Float(0)}

\* mutant: strict comparisons in relative mode
relative_status_strict(magnitude, r) ==
    IF FGt(magnitude, r.fail) THEN "DEGRADATION"
    ELSE IF FGt(magnitude, r.warn) THEN "WARNING"
    ELSE "PASS"

\* relative mode: the status for a computed magnitude
relative_status(magnitude, r) ==
    IF FGe(magnitude, r.fail) THEN "DEGRADATION"
    ELSE IF FGe(magnitude, r.warn) THEN "WARNING"
    ELSE "PASS"

\* mutant: the 'decrease' branch of absolute mode compares strictly
absolute_status_strict(current_value, r) ==
    IF r.direction = "increase"
    THEN IF FGe(current_value, r.fail) THEN "DEGRADATION"
         ELSE IF FGe(current_value, r.warn) THEN "WARNING"
         ELSE "PASS"
    ELSE IF FLt(current_value, r.fail) THEN "DEGRADATION"
         ELSE IF FLt(current_value, r.warn) THEN "WARNING"
         ELSE "PASS"

\* absolute mode: the status for a current value
absolute_status(current_value, r) ==
    IF r.direction = "increase"
    THEN IF FGe(current_value, r.fail) THEN "DEGRADATION"
         ELSE IF FGe(current_value, r.warn) THEN "WARNING"
         ELSE "PASS"
    ELSE IF FLe(current_value, r.fail) THEN "DEGRADATION"
         ELSE IF FLe(current_value, r.warn) THEN "WARNING"
         ELSE "PASS"

\* mutant: absolute mode leaves delta_percent unset
absolute_delta_unset(current_value, baseline_value) == None

\* absolute mode: delta_percent, for display
absolute_delta(current_value, baseline_value) ==
    IF baseline_value # None /\ baseline_value # Float(0)
    THEN FMul(FDiv(FSub(current_value, baseline_value), baseline_value), Float(100))
    ELSE None

\* mutant: a mode that is not 'relative' is evaluated as 'absolute'
evaluate_rule_default_absolute(r, cur, base) ==
    LET current_value  == _safe_float(Get(cur, r.metric))
        baseline_value == _safe_float(Get(base, r.metric))
        res == [metric |-> r.metric, mode |-> r.mode, direction |-> r.direction,
                warn |-> r.warn, fail |-> r.fail,
                current |-> current_value, baseline |-> baseline_value,
                delta_percent |-> None, status |-> "PASS", reason |-> None]
    IN  IF current_value = None
        THEN [res EXCEPT !.status = "SKIP", !.reason = <<"missing current value">>]
        ELSE IF r.mode = "relative"
        THEN IF baseline_unusable(baseline_value)
             THEN [res EXCEPT !.status = "SKIP", !.reason = <<"missing baseline value">>]
             ELSE LET rc == _relative_change(current_value, baseline_value, r.direction)
                      res2 == [res EXCEPT !.delta_percent = rc[1]]
                  IN  IF rc[2] = None
                      THEN [res2 EXCEPT !.status = "SKIP",
                                        !.reason = <<"unable to compute relative change">>]
                      ELSE [res2 EXCEPT !.status = relative_status(rc[2], r)]
        ELSE [res EXCEPT !.status = absolute_status(current_value, r),
                         !.delta_percent = absolute_delta(current_value, baseline_value)]

\* mutant: an unusable baseline sets the reason and leaves the status alone
evaluate_rule_reason_only(r, cur, base) ==
    LET current_value  == _safe_float(Get(cur, r.metric))
        baseline_value == _safe_float(Get(base, r.metric))
        res == [metric |-> r.metric, mode |-> r.mode, direction |-> r.direction,
                warn |-> r.warn, fail |-> r.fail,
                current |-> current_value, baseline |-> baseline_value,
                delta_percent |-> None, status |-> "PASS", reason |-> None]
    IN  IF current_value = None
        THEN [res EXCEPT !.status = "SKIP", !.reason = <<"missing current value">>]
        ELSE IF r.mode = "relative"
        THEN IF baseline_unusable(baseline_value)
             THEN [res EXCEPT !.reason = <<"missing baseline value">>]
             ELSE LET rc == _relative_change(current_value, baseline_value, r.direction)
                      res2 == [res EXCEPT !.delta_percent = rc[1]]
                  IN  IF rc[2] = None
                      THEN [res2 EXCEPT !.status = "SKIP",
                                        !.reason = <<"unable to compute relative change">>]
                      ELSE [res2 EXCEPT !.status = relative_status(rc[2], r)]
        ELSE IF r.mode = "absolute"
        THEN [res EXCEPT !.status = absolute_status(current_value, r),
                         !.delta_percent = absolute_delta(current_value, baseline_value)]
        ELSE [res EXCEPT !.status = "SKIP", !.reason = <<"unsupported rule mode">>]

evaluate_rule(r, cur, base) ==
    LET current_value  == _safe_float(Get(cur, r.metric))
        baseline_value == _safe_float(Get(base, r.metric))
        res == [metric |-> r.metric, mode |-> r.mode, direction |-> r.direction,
                warn |-> r.warn, fail |-> r.fail,
                current |-> current_value, baseline |-> baseline_value,
                delta_percent |-> None, status |-> "PASS", reason |-> None]
    IN  IF current_value = None
        THEN [res EXCEPT !.status = "SKIP", !.reason = <<"missing current value">>]
        ELSE IF r.mode = "relative"
        THEN IF baseline_unusable(baseline_value)
             THEN [res EXCEPT !.status = "SKIP", !.reason = <<"missing baseline value">>]
             ELSE LET rc == _relative_change(current_value, baseline_value, r.direction)
                      delta == rc[1]
                      magnitude == rc[2]
                      res2 == [res EXCEPT !.delta_percent = delta]
                  IN  IF magnitude = None
                      THEN [res2 EXCEPT !.status = "SKIP",
                                        !.reason = <<"unable to compute relative change">>]
                      ELSE [res2 EXCEPT !.status = relative_status(magnitude, r)]
        ELSE IF r.mode = "absolute"
        THEN [res EXCEPT !.status = absolute_status(current_value, r),
                         !.delta_percent = absolute_delta(current_value, baseline_value)]
        ELSE [res EXCEPT !.status = "SKIP", !.reason = <<"unsupported rule mode">>]

STATUS_SEVERITY == [PASS |-> 0, WARNING |-> 1, DEGRADATION |-> 2]

\* mutant: SKIP is ranked above DEGRADATION instead of being left out
worst_status_skip_counts(results) ==
    IF \E i \in 1..Len(results) : results[i].status = "SKIP" THEN "SKIP"
    ELSE IF \E i \in 1..Len(results) : results[i].status = "DEGRADATION" THEN "DEGRADATION"
    ELSE IF \E i \in 1..Len(results) : results[i].status = "WARNING" THEN "WARNING"
    ELSE "PASS"

\* the loop over results that keeps the most severe status seen so far
RECURSIVE worst_from(_, _, _)
worst_from(results, i, worst) ==
    IF i > Len(results) THEN worst
    ELSE LET status == results[i].status
         IN  IF /\ status \in DOMAIN STATUS_SEVERITY
                /\ STATUS_SEVERITY[status] > STATUS_SEVERITY[worst]
             THEN worst_from(results, i + 1, status)
             ELSE worst_from(results, i + 1, worst)

worst_status(results) == worst_from(results, 1, "PASS")

\* mutant: the SKIP results are not counted
count_status_no_skip(results, st) ==
    IF st = "SKIP" THEN 0
    ELSE Cardinality({i \in 1..Len(results) : results[i].status = st})

count_status(results, st) == Cardinality({i \in 1..Len(results) : results[i].status = st})

summary_of(results) ==
    [PASS        |-> count_status(results, "PASS"),
     WARNING     |-> count_status(results, "WARNING"),
     DEGRADATION |-> count_status(results, "DEGRADATION"),
     SKIP        |-> count_status(results, "SKIP")]

\* the rules evaluated by a loop that stops after the first DEGRADATION
RECURSIVE results_until_degradation(_, _, _, _)
results_until_degradation(cur, base, rs, i) ==
    IF i > Len(rs) THEN <<>>
    ELSE LET res == evaluate_rule(rs[i], cur, base)
         IN  IF res.status = "DEGRADATION" THEN <<res>>
             ELSE <<res>> \o results_until_degradation(cur, base, rs, i + 1)

\* mutant: no rule is evaluated after the first DEGRADATION
analyze_short_circuit(cur, base, rs) ==
    LET results == results_until_degradation(cur, base, rs, 1)
    IN  [status |-> worst_status(results),
         summary |-> summary_of(results),
         results |-> results]

analyze(cur, base, rs) ==
    LET results == [i \in 1..Len(rs) |-> evaluate_rule(rs[i], cur, base)]
    IN  [status |-> worst_status(results),
         summary |-> summary_of(results),
         results |-> results]

\* the verdict as analyze returns it, with "evaluated_at": utc_now()
evaluated(v, now) ==
    [status |-> v.status, evaluated_at |-> now, summary |-> v.summary,
     results |-> v.results]

\* the result combiner (spec section 4.3): concatenation of the result lists,
\* the counts per status and the most severe status under PASS < WARNING < DEGRADATION
RECURSIVE concat_all(_)
concat_all(result_lists) ==
    IF result_lists = <<>> THEN <<>>
    ELSE Head(result_lists) \o concat_all(Tail(result_lists))

merge_status(results) ==
    IF \E i \in 1..Len(results) : results[i].status = "DEGRADATION" THEN "DEGRADATION"
    ELSE IF \E i \in 1..Len(results) : results[i].status = "WARNING" THEN "WARNING"
    ELSE "PASS"

merge_results(result_lists) ==
    LET results == concat_all(result_lists)
    IN  [status |-> merge_status(results),
         summary |-> summary_of(results),
         results |-> results]

\* float(x) of a raw value: the exception it raises, or None
float_error(raw) ==
    IF raw.kind \in {"absent", "null", "list"} THEN <<"TypeError">>
    ELSE IF raw.kind = "text" THEN <<"ValueError">>
    ELSE None

\* str(item.get(key)) of a text entry: a missing key or null reads "None"
str_of(text) == IF text \in {"absent", "null"} THEN "None" ELSE text

\* what load_rules gives: the exception raised, or the rules built
Raised(e)   == [raised |-> e, rules |-> <<>>]
Loaded(rs)  == [raised |-> None, rules |-> rs]

\* the loop of load_rules: entries that are no mapping are passed over, a
\* Rule is built from every other entry, warn converted before fail
RECURSIVE load_items(_, _)
load_items(items, acc) ==
    IF items = <<>> THEN Loaded(acc)
    ELSE LET item == Head(items)
         IN  IF item.kind # "dict" THEN load_items(Tail(items), acc)
             ELSE IF float_error(item.warn) # None THEN Raised(float_error(item.warn))
             ELSE IF float_error(item.fail) # None THEN Raised(float_error(item.fail))
             ELSE load_items(Tail(items),
                             Append(acc, [metric |-> str_of(item.metric),
                                          mode |-> str_of(item.mode),
                                          direction |-> str_of(item.direction),
                                          warn |-> _safe_float(item.warn),
                                          fail |-> _safe_float(item.fail)]))

\* mutant: an entry whose warn or fail float() rejects is passed over
load_rules_skips_bad(rules_raw) ==
    IF rules_raw.kind # "list" THEN Loaded(<<>>)
    ELSE load_items(SelectSeq(rules_raw.items,
                              LAMBDA item : item.kind = "dict" =>
                                  /\ float_error(item.warn) = None
                                  /\ float_error(item.fail) = None),
                    <<>>)

\* rules_raw: [kind : {"null", "dict", "list"}, items : sequence of entries]
load_rules(rules_raw) ==
    IF rules_raw.kind # "list" THEN Loaded(<<>>)
    ELSE load_items(rules_raw.items, <<>>)

----------------------------------------------------------------------------
(* gate.py *)

ERROR_METRICS == {"error_rate", "error_rate_4xx", "error_rate_5xx", "error_rate_503",
                  "error_rate_non_503", "failures", "failures_4xx", "failures_5xx",
                  "failures_503", "failures_non_503"}

\* int(x): truncation towards zero
Trunc(x) == IF x[1] >= 0 THEN x[1] \div x[2] ELSE 0 - ((0 - x[1]) \div x[2])

\* mutant: a tie is rounded up
Round_half_up(x) ==
    LET fl == x[1] \div x[2]
    IN  IF 2 * (x[1] - fl * x[2]) < x[2] THEN fl ELSE fl + 1

\* round(x): to the nearest integer, a tie goes to the even one
Round(x) ==
    LET fl == x[1] \div x[2]                  \* floor
        r2 == 2 * (x[1] - fl * x[2])          \* twice the fractional part, times x[2]
    IN  IF r2 < x[2] THEN fl
        ELSE IF r2 > x[2] THEN fl + 1
        ELSE IF fl % 2 = 0 THEN fl ELSE fl + 1

_safe_int(value) ==
    LET num == _safe_float(value)
    IN  IF num = None THEN None ELSE Float(Trunc(num))

\* `if x:` on an optional number
Truthy(x) == x # None /\ x # Float(0)

\* a threshold entry as _evaluate_threshold reads it: absent keys read as None
NoCfg == [warn |-> Absent, fail |-> Absent, direction |-> "absent"]

\* raw: [kind : {"absent", "null", "list", "dict"}, items : sequence of <<metric, cfg>>],
\* cfg : [kind : {"null", "bare", "dict"}, value, warn, fail, direction]
RECURSIVE parse_items(_)
parse_items(items) ==
    IF items = <<>> THEN <<>>
    ELSE LET metric == Head(items)[1]
             cfg    == Head(items)[2]
             rest   == parse_items(Tail(items))
         IN  IF cfg.kind = "dict"
             THEN <<<<metric, [warn |-> cfg.warn, fail |-> cfg.fail,
                               direction |-> cfg.direction]>>>> \o rest
             ELSE IF cfg.kind # "null"
             THEN <<<<metric, [NoCfg EXCEPT !.fail = cfg.value]>>>> \o rest
             ELSE rest

\* mutant: a null entry is kept as {"fail": None}
_parse_thresholds_keeps_null(raw) ==
    IF raw.kind # "dict" THEN <<>>
    ELSE [i \in 1..Len(raw.items) |->
            IF raw.items[i][2].kind = "dict"
            THEN <<raw.items[i][1], [warn |-> raw.items[i][2].warn,
                                     fail |-> raw.items[i][2].fail,
                                     direction |-> raw.items[i][2].direction]>>
            ELSE <<raw.items[i][1], [NoCfg EXCEPT !.fail = raw.items[i][2].value]>>]

_parse_thresholds(raw) ==
    IF raw.kind # "dict" THEN <<>> ELSE parse_items(raw.items)

\* str(rule.get("direction") or "increase").lower()
Lower(text) == IF text = "DECREASE" THEN "decrease"
               ELSE IF text = "Increase" THEN "increase"
               ELSE text
direction_of(raw) == IF raw \in {"absent", "null", ""} THEN "increase" ELSE Lower(raw)

\* f"gate.{metric_name}"
GateName(metric_name) ==
    CASE metric_name = "error_rate"         -> "gate.error_rate"
      [] metric_name = "error_rate_non_503" -> "gate.error_rate_non_503"
      [] metric_name = "requests"           -> "gate.requests"
      [] metric_name = "failures"           -> "gate.failures"
      [] metric_name = "p95_ms"             -> "gate.p95_ms"
      [] metric_name = "rps"                -> "gate.rps"

\* mutant: the warn level is inferred in every mode
inferred_warn_any_mode(warn, fail, metric_name, md) ==
    IF warn = None /\ metric_name \in ERROR_METRICS /\ fail # None
    THEN Float(0)
    ELSE warn

\* warn inference for the error metrics in resilience mode
inferred_warn(warn, fail, metric_name, md) ==
    IF warn = None /\ metric_name \in ERROR_METRICS /\ fail # None /\ md = "resilience"
    THEN Float(0)
    ELSE warn

\* mutant: the 'decrease' comparison is strict
decrease_status_strict(cur, warn, fail) ==
    IF fail # None /\ FLt(cur, fail) THEN "DEGRADATION"
    ELSE IF warn # None /\ FLt(cur, warn) THEN "WARNING"
    ELSE "PASS"

\* the comparison for direction "decrease"
decrease_status(cur, warn, fail) ==
    IF fail # None /\ FLe(cur, fail) THEN "DEGRADATION"
    ELSE IF warn # None /\ FLe(cur, warn) THEN "WARNING"
    ELSE "PASS"

\* mutant: the 'increase' comparison is inclusive, as in the rule evaluator
increase_status_inclusive(cur, warn, fail) ==
    IF fail # None /\ FGe(cur, fail) THEN "DEGRADATION"
    ELSE IF warn # None /\ FGe(cur, warn) THEN "WARNING"
    ELSE "PASS"

\* the comparison for every other direction
increase_status(cur, warn, fail) ==
    IF fail # None /\ FGt(cur, fail) THEN "DEGRADATION"
    ELSE IF warn # None /\ FGt(cur, warn) THEN "WARNING"
    ELSE "PASS"

\* mutant: the thresholds are looked at before the eligibility and the value
_evaluate_threshold_thresholds_first(metric_name, cur, cfg, md, eligible, skip_reason) ==
    LET fail == _safe_float(Get(cfg, "fail"))
        direction == direction_of(cfg.direction)
        warn == inferred_warn(_safe_float(Get(cfg, "warn")), fail, metric_name, md)
        res == [metric |-> GateName(metric_name), mode |-> "gate", direction |-> direction,
                warn |-> warn, fail |-> fail, current |-> cur, baseline |-> None,
                delta_percent |-> None, status |-> "PASS", reason |-> None]
    IN  IF warn = None /\ fail = None
        THEN [res EXCEPT !.status = "SKIP", !.reason = <<"missing thresholds">>]
        ELSE IF ~eligible
        THEN [res EXCEPT !.status = "SKIP",
                         !.reason = IF skip_reason # None THEN skip_reason
                                    ELSE <<"gate not eligible">>]
        ELSE IF cur = None
        THEN [res EXCEPT !.status = "SKIP", !.reason = <<"missing current value">>]
        ELSE IF direction = "decrease"
        THEN [res EXCEPT !.status = decrease_status(cur, warn, fail)]
        ELSE [res EXCEPT !.status = increase_status(cur, warn, fail)]

_evaluate_threshold(metric_name, cur, cfg, md, eligible, skip_reason) ==
    LET fail == _safe_float(Get(cfg, "fail"))
        direction == direction_of(cfg.direction)
        warn == inferred_warn(_safe_float(Get(cfg, "warn")), fail, metric_name, md)
        res == [metric |-> GateName(metric_name), mode |-> "gate", direction |-> direction,
                warn |-> warn, fail |-> fail, current |-> cur, baseline |-> None,
                delta_percent |-> None, status |-> "PASS", reason |-> None]
    IN  IF ~eligible
        THEN [res EXCEPT !.status = "SKIP",
                         !.reason = IF skip_reason # None THEN skip_reason
                                    ELSE <<"gate not eligible">>]
        ELSE IF cur = None
        THEN [res EXCEPT !.status = "SKIP", !.reason = <<"missing current value">>]
        ELSE IF warn = None /\ fail = None
        THEN [res EXCEPT !.status = "SKIP", !.reason = <<"missing thresholds">>]
        ELSE IF direction = "decrease"
        THEN [res EXCEPT !.status = decrease_status(cur, warn, fail)]
        ELSE [res EXCEPT !.status = increase_status(cur, warn, fail)]

\* mutant: the implicit threshold is written as a warn level
effective_thresholds_warn(parsed, md) ==
    IF parsed = <<>> /\ md = "acceptance"
    THEN <<<<"error_rate", [NoCfg EXCEPT !.warn = Num(0)]>>>>
    ELSE parsed

\* the implicit threshold of acceptance mode: {"error_rate": {"fail": 0}}
effective_thresholds(parsed, md) ==
    IF parsed = <<>> /\ md = "acceptance"
    THEN <<<<"error_rate", [NoCfg EXCEPT !.fail = Num(0)]>>>>
    ELSE parsed

\* the warm-up adjustment applies: `if warmup_seconds and history_summary`
adjusts(warmup_seconds, hs) == Truthy(warmup_seconds) /\ hs # None

\* mutant: the warm-up test is made last, so its reason wins
eligibility_warmup_wins(warmup_seconds, hs, min_requests, requests_used) ==
    LET e1 == IF min_requests # None /\ (requests_used = None \/ FLt(requests_used, min_requests))
              THEN <<FALSE, <<"min_requests not met">>>>
              ELSE <<TRUE, None>>
    IN  IF Truthy(warmup_seconds) /\ hs = None
        THEN <<FALSE, <<"missing stats history for warmup">>>>
        ELSE e1

\* mutant: a missing warm-up history does not make the gate ineligible
eligibility_no_warmup_test(warmup_seconds, hs, min_requests, requests_used) ==
    IF min_requests # None /\ (requests_used = None \/ FLt(requests_used, min_requests))
    THEN <<FALSE, <<"min_requests not met">>>>
    ELSE <<TRUE, None>>

\* mutant: a gate that counted no request is not eligible
eligibility_needs_requests(warmup_seconds, hs, min_requests, requests_used) ==
    LET e1 == IF Truthy(warmup_seconds) /\ hs = None
              THEN <<FALSE, <<"missing stats history for warmup">>>>
              ELSE <<TRUE, None>>
    IN  IF requests_used = Float(0) \/
           (min_requests # None /\ (requests_used = None \/ FLt(requests_used, min_requests)))
        THEN <<FALSE, <<"min_requests not met">>>>
        ELSE e1

\* <<eligible, skip_reason>>
eligibility(warmup_seconds, hs, min_requests, requests_used) ==
    LET e1 == IF Truthy(warmup_seconds) /\ hs = None
              THEN <<FALSE, <<"missing stats history for warmup">>>>
              ELSE <<TRUE, None>>
    IN  IF min_requests # None /\ (requests_used = None \/ FLt(requests_used, min_requests))
        THEN <<FALSE, <<"min_requests not met">>>>
        ELSE e1

evaluate_gate(ms, cfg, md, hs) ==
    LET thresholds == effective_thresholds(_parse_thresholds(cfg.thresholds), md)
    IN  IF thresholds = <<>> THEN None
        ELSE
        LET min_requests   == _safe_int(Get(cfg, "min_requests"))
            warmup_seconds == _safe_int(Get(cfg, "warmup_seconds"))
            adjust   == adjusts(warmup_seconds, hs)
            setReq   == adjust /\ hs.requests # None
            setFail  == adjust /\ hs.failures # None
            requests_used == IF setReq THEN Float(Round(hs.requests))
                             ELSE _safe_int(Get(ms, "requests"))
            failures_used == IF setFail THEN Float(Round(hs.failures))
                             ELSE _safe_int(Get(ms, "failures"))
            setRate  == adjust /\ Truthy(requests_used)
            rate     == FMul(FDiv(IF Truthy(failures_used) THEN failures_used ELSE Float(0),
                                  requests_used), Float(100))
            gate_metrics ==
                [m \in DOMAIN ms \cup {"requests", "failures", "error_rate"} |->
                    IF m = "requests" /\ setReq THEN Num(requests_used[1])
                    ELSE IF m = "failures" /\ setFail THEN Num(failures_used[1])
                    ELSE IF m = "error_rate" /\ setRate THEN NumFrac(rate[1], rate[2])
                    ELSE IF m \in DOMAIN ms THEN ms[m]
                    ELSE Absent]
            el == eligibility(warmup_seconds, hs, min_requests, requests_used)
            results == [i \in 1..Len(thresholds) |->
                          _evaluate_threshold(thresholds[i][1],
                                              _safe_float(Get(gate_metrics, thresholds[i][1])),
                                              thresholds[i][2], md, el[1], el[2])]
            merged == merge_results(<<results>>)
        IN  [status |-> merged.status, summary |-> merged.summary,
             results |-> merged.results,
             gate |-> [mode |-> md, min_requests |-> min_requests,
                       warmup_seconds |-> warmup_seconds,
                       requests_used |-> requests_used,
                       failures_used |-> failures_used]]

----------------------------------------------------------------------------
(* cli.py *)

\* a text option that is missing, null or empty is falsy
Given(text) == text \notin {"absent", "null", ""}

\* str(value).strip().lower()
strip_lower(text) ==
    CASE text = " Resilience " -> "resilience"
      [] text = "ACCEPTANCE"   -> "acceptance"
      [] OTHER                 -> text

\* mutant: the text is compared as written
_normalize_mode_as_written(value) ==
    IF value \in {"absent", "null"} THEN ""
    ELSE IF value \in {"resilience", "acceptance"} THEN value
    ELSE ""

_normalize_mode(value) ==
    IF value \in {"absent", "null"} THEN ""
    ELSE IF strip_lower(value) \in {"resilience", "acceptance"} THEN strip_lower(value)
    ELSE ""

\* a section that is no mapping reads as the empty mapping
_get_section(section) ==
    IF section.kind = "dict" THEN section
    ELSE [kind |-> "dict", mode |-> "absent",
          thresholds |-> [kind |-> "absent", items |-> <<>>]]

\* <<mode, gate_cfg>>
_resolve_gate_config(cfg) ==
    LET gate  == _get_section(cfg.gate)
        mode0 == _normalize_mode(IF Given(cfg.mode) THEN cfg.mode ELSE gate.mode)
        has_thresholds == gate.thresholds.kind = "dict" /\ gate.thresholds.items # <<>>
        mode1 == IF mode0 = "" /\ has_thresholds THEN "resilience" ELSE mode0
        mode2 == IF mode1 = "resilience" /\ ~has_thresholds THEN "" ELSE mode1
    IN  <<mode2, gate>>

\* if inline_rules: load_rules({"rules": inline_rules})
_load_rules_from_sources(inline) ==
    IF inline.kind = "null" \/ inline.items = <<>> THEN Loaded(<<>>)
    ELSE load_rules(inline)

\* <<the exception raised or None, the rules built, the verdict>>
_analyze(cur, base, inline) ==
    LET loaded == _load_rules_from_sources(inline)
    IN  IF loaded.raised # None THEN <<loaded.raised, None, None>>
        ELSE <<None, loaded.rules, analyze(cur, base, loaded.rules)>>

\* mutant: fail_on WARNING fails on status WARNING only
_exit_code_for_status_exact(status, fail_on) ==
    IF fail_on = status /\ status \in {"WARNING", "DEGRADATION"} THEN 1 ELSE 0

_exit_code_for_status(status, fail_on) ==
    IF fail_on = "WARNING" /\ status \in {"WARNING", "DEGRADATION"} THEN 1
    ELSE IF fail_on = "DEGRADATION" /\ status = "DEGRADATION" THEN 1
    ELSE 0

\* args.fail_on or analysis_cfg.get("fail_on") or "DEGRADATION"
fail_on_of(a, cfg) ==
    IF a.fail_on # None THEN a.fail_on[1]
    ELSE IF Given(cfg.fail_on) THEN cfg.fail_on
    ELSE "DEGRADATION"

\* what cmd_analyze returns for the combined verdict (None: no result set)
analyze_exit(cmb, a, cfg) ==
    IF cmb # None THEN _exit_code_for_status(cmb.status, fail_on_of(a, cfg)) ELSE 0

\* what cmd_ci returns
ci_exit(cmb, a, cfg, locust_code, exist, md) ==
    IF ~exist THEN (IF locust_code # 0 THEN locust_code ELSE 1)
    ELSE IF locust_code # 0 /\ md = "" THEN locust_code
    ELSE IF cmb # None THEN _exit_code_for_status(cmb.status, fail_on_of(a, cfg))
    ELSE 0

----------------------------------------------------------------------------
(* Inputs *)

Metrics    == {"p95_ms", "rps"}
Modes      == {"relative", "absolute", "None", "Relative"}
Directions == {"increase", "decrease", "None"}
Thresholds == {0, 1, 50, 100}

Raw == {Absent, Null, Text, ListV, NumText(1)} \cup {Num(n) : n \in (0 - MaxVal)..MaxVal}
\* what the mapping holds under a metric the rule does not name
Decoy == {Absent, Num(MaxVal)}

Rules == [metric : Metrics, mode : Modes, direction : Directions,
          warn : {Float(t) : t \in Thresholds}, fail : {Float(t) : t \in Thresholds}]

----------------------------------------------------------------------------
(* Driver of evaluate_rule: one rule against a current and a baseline mapping *)

NoThresholdCall == call = None
NoGateCall ==
    /\ metrics = None /\ gate_cfg = None /\ mode = None
    /\ history_summary = None /\ gate_eval = None
NoRuleCall == rule = None /\ current = None /\ baseline = None
NoCommand ==
    /\ rules = None /\ baseline_id = None /\ verdict = None /\ combined = None
    /\ command = None /\ metrics_exist = None /\ returncode = None
    /\ args = None /\ analysis_cfg = None /\ exit_code = None
    /\ inline_rules = None /\ error = None
NoHistory == history = None /\ warmup = None
NoStorage ==
    /\ stored = None /\ appended = None /\ max_runs = None
    /\ run_id = None /\ baseline_pointer = None
NoSecondCall == again = None /\ clock = None

Init ==
    /\ NoHistory /\ NoStorage /\ NoSecondCall
    /\ pc = "start"
    /\ rule \in Rules
    /\ \E cv \in Raw, dc \in Decoy :
          current = [m \in Metrics |-> IF m = rule.metric THEN cv ELSE dc]
    /\ \E bv \in Raw, db \in Decoy :
          baseline = [m \in Metrics |-> IF m = rule.metric THEN bv ELSE db]
    /\ result = None
    /\ NoThresholdCall /\ NoGateCall /\ NoCommand

EvaluateRule ==
    /\ pc = "start"
    /\ result' = evaluate_rule(rule, current, baseline)
    /\ pc' = "done"
    /\ UNCHANGED <<rule, current, baseline, call,
                   metrics, gate_cfg, mode, history_summary, gate_eval,
                   rules, baseline_id, verdict, combined,
                   command, metrics_exist, returncode, args, analysis_cfg,
                   exit_code, inline_rules, error,
                   history, warmup, stored, appended, max_runs, run_id,
                   baseline_pointer, again, clock>>

Next == EvaluateRule

Spec == Init /\ [][Next]_vars

----------------------------------------------------------------------------
(* Driver of _evaluate_threshold: one threshold of a gate pass *)

GateModes == {"resilience", "acceptance"}
ThresholdMetrics == {"error_rate_non_503", "p95_ms"}
ThresholdCurrents == {None, Frac(1, 100)} \cup {Float(n) : n \in -1..MaxVal}
WarnFailRaw == {Absent, Null, Text} \cup {Num(n) : n \in 0..(MaxVal - 1)}
DirectionRaw == {"absent", "", "increase", "decrease", "DECREASE", "up"}
\* the <<eligible, skip_reason>> pairs evaluate_gate passes down
Eligibilities == {<<TRUE, None>>,
                  <<FALSE, <<"missing stats history for warmup">>>>,
                  <<FALSE, <<"min_requests not met">>>>}

InitThreshold ==
    /\ NoHistory /\ NoStorage /\ NoSecondCall
    /\ pc = "start"
    /\ call \in [metric_name : ThresholdMetrics, current : ThresholdCurrents,
                  rule : [warn : WarnFailRaw, fail : WarnFailRaw, direction : DirectionRaw],
                  mode : GateModes, eligibility : Eligibilities]
    \* the error metrics are rates and counts: never negative
    /\ call.metric_name \in ERROR_METRICS =>
          (IF call.current = None THEN TRUE ELSE call.current[1] >= 0)
    /\ result = None
    /\ NoRuleCall /\ NoGateCall /\ NoCommand

EvaluateThreshold ==
    /\ pc = "start"
    /\ result' = _evaluate_threshold(call.metric_name, call.current, call.rule, call.mode,
                                     call.eligibility[1], call.eligibility[2])
    /\ pc' = "done"
    /\ UNCHANGED <<rule, current, baseline, call,
                   metrics, gate_cfg, mode, history_summary, gate_eval,
                   rules, baseline_id, verdict, combined,
                   command, metrics_exist, returncode, args, analysis_cfg,
                   exit_code, inline_rules, error,
                   history, warmup, stored, appended, max_runs, run_id,
                   baseline_pointer, again, clock>>

NextThreshold == EvaluateThreshold

SpecThreshold == InitThreshold /\ [][NextThreshold]_vars

----------------------------------------------------------------------------
(* Driver of evaluate_gate: one gate pass *)

CfgNull == [kind |-> "null", value |-> Null, warn |-> Absent, fail |-> Absent,
            direction |-> "absent"]
Bare(x) == [kind |-> "bare", value |-> x, warn |-> Absent, fail |-> Absent,
            direction |-> "absent"]
Dict(w, f, dir) == [kind |-> "dict", value |-> Null, warn |-> w, fail |-> f,
                    direction |-> dir]

\* the entries a thresholds mapping may hold under each metric
EntryCfgs(metric) ==
    IF metric = "error_rate"
    THEN {CfgNull, Bare(Num(0)), Dict(Num(0), Num(1), "absent")}
    ELSE {CfgNull, Bare(Num(1)), Bare(Text), Dict(Absent, Absent, "absent"),
          Dict(Num(MaxVal), Num(1), "decrease")}

GateThresholdMetrics == {"error_rate", "p95_ms"}

\* sequences of at most MaxThresholds entries under distinct metrics
RECURSIVE ItemSeqs(_)
ItemSeqs(n) ==
    IF n = 0 THEN {<<>>}
    ELSE LET shorter == ItemSeqs(n - 1)
         IN  shorter \cup
             {Append(q, <<m, c>>) : q \in {x \in shorter : Len(x) = n - 1},
                                    m \in GateThresholdMetrics,
                                    c \in UNION {EntryCfgs(k) : k \in GateThresholdMetrics}}

ThresholdsRaw ==
    {[kind |-> k, items |-> <<>>] : k \in {"absent", "null", "list"}} \cup
    {[kind |-> "dict", items |-> q] :
        q \in {x \in ItemSeqs(MaxThresholds) :
                  /\ \A i \in 1..Len(x) : x[i][2] \in EntryCfgs(x[i][1])
                  /\ \A i, j \in 1..Len(x) : i # j => x[i][1] # x[j][1]}}

GateMetricNames == {"requests", "failures", "error_rate", "p95_ms"}
GateMetricValues(m) ==
    CASE m = "requests"   -> {Absent, Num(0), Num(MaxVal)}
      [] m = "failures"   -> {Absent, Num(1)}
      [] m = "error_rate" -> {Absent, Num(0), NumFrac(1, 100)}
      [] m = "p95_ms"     -> {Absent, Num(1), Num(MaxVal)}

\* summaries as summarize_history builds them
Summary(requests, failures) ==
    [requests |-> Float(requests), failures |-> Float(failures),
     error_rate |-> IF requests <= 0 THEN None
                    ELSE FMul(FDiv(Float(failures), Float(requests)), Float(100))]
Summaries == {None, Summary(0, 0), Summary(1, 1), Summary(MaxVal, 1)}

InitGate ==
    /\ NoHistory /\ NoStorage /\ NoSecondCall
    /\ pc = "start"
    /\ metrics \in {f \in [GateMetricNames -> UNION {GateMetricValues(m) : m \in GateMetricNames}] :
                       \A m \in GateMetricNames : f[m] \in GateMetricValues(m)}
    /\ gate_cfg \in [thresholds : ThresholdsRaw,
                      min_requests : {Absent, Text, Num(0), Num(MaxVal)},
                      warmup_seconds : {Absent, Num(0), Num(10)}]
    /\ mode \in GateModes
    /\ history_summary \in Summaries
    /\ gate_eval = None
    /\ result = None
    /\ NoRuleCall /\ NoThresholdCall /\ NoCommand

EvaluateGate ==
    /\ pc = "start"
    /\ gate_eval' = evaluate_gate(metrics, gate_cfg, mode, history_summary)
    /\ pc' = "done"
    /\ UNCHANGED <<rule, current, baseline, result, call,
                   metrics, gate_cfg, mode, history_summary,
                   rules, baseline_id, verdict, combined,
                   command, metrics_exist, returncode, args, analysis_cfg,
                   exit_code, inline_rules, error,
                   history, warmup, stored, appended, max_runs, run_id,
                   baseline_pointer, again, clock>>

NextGate == EvaluateGate

SpecGate == InitGate /\ [][NextGate]_vars

----------------------------------------------------------------------------
(* Driver of the analyze and ci commands: the baseline comparison, the gate,
   the combination of their result sets and the exit code
   (cmd_analyze, cmd_ci) *)

CommandMetrics == {"p95_ms", "rps", "error_rate", "requests"}

AnalyzeRules ==
    {[metric |-> "p95_ms", mode |-> "absolute", direction |-> "increase",
      warn |-> Float(1), fail |-> Float(MaxVal)],
     [metric |-> "p95_ms", mode |-> "relative", direction |-> "increase",
      warn |-> Float(50), fail |-> Float(100)],
     [metric |-> "rps", mode |-> "absolute", direction |-> "decrease",
      warn |-> Float(1), fail |-> Float(0)]}

RECURSIVE RuleSeqs(_)
RuleSeqs(n) ==
    IF n = 0 THEN {<<>>}
    ELSE LET shorter == RuleSeqs(n - 1)
         IN  shorter \cup {Append(q, r) : q \in {x \in shorter : Len(x) = n - 1},
                                          r \in AnalyzeRules}

CommandCurrents ==
    {[m \in CommandMetrics |->
        CASE m = "p95_ms"     -> p
          [] m = "rps"        -> r
          [] m = "error_rate" -> e
          [] m = "requests"   -> Num(MaxVal)] :
     p \in {Absent, Num(1), Num(MaxVal)}, r \in {Absent, Num(1)},
     e \in {Num(0), NumFrac(1, 100)}}

CommandBaselines ==
    {[m \in CommandMetrics |-> IF m = "p95_ms" THEN p ELSE IF m = "rps" THEN Num(1) ELSE Absent] :
     p \in {Absent, Num(1)}}

CommandThresholds ==
    {[kind |-> "absent", items |-> <<>>],
     [kind |-> "dict", items |-> <<<<"error_rate", Bare(Num(0))>>>>],
     [kind |-> "dict", items |-> <<<<"error_rate", Dict(Num(0), Num(1), "absent")>>,
                                   <<"p95_ms", Bare(Num(1))>>>>]}

\* the modes _resolve_gate_config can resolve for a thresholds mapping
ResolvedModes(thresholds) ==
    IF thresholds.kind = "dict" /\ thresholds.items # <<>>
    THEN {"resilience", "acceptance"}
    ELSE {"", "acceptance"}

\* the fail_on settings: the --fail-on option and analysis.fail_on
FailOnArgs == {None, <<"DEGRADATION">>}
FailOnCfgs == {"absent", "WARNING"}
ReturnCodes == {0, 2}

InitCommand ==
    /\ NoHistory /\ NoStorage /\ NoSecondCall
    /\ pc = "analyze"
    /\ command \in {"analyze", "ci"}
    /\ metrics_exist \in BOOLEAN
    /\ command = "analyze" => metrics_exist     \* else load_json raises
    /\ returncode \in ReturnCodes
    /\ command = "analyze" => returncode = 0    \* no locust run
    /\ args \in [fail_on : FailOnArgs]
    /\ analysis_cfg \in [fail_on : FailOnCfgs]
    /\ rules \in RuleSeqs(MaxRules)
    /\ IF metrics_exist THEN current \in CommandCurrents ELSE current = None
    /\ baseline \in CommandBaselines
    /\ gate_cfg \in [thresholds : CommandThresholds,
                      min_requests : {Absent, Num(MaxVal + 1)},
                      warmup_seconds : {Absent}]
    /\ mode \in ResolvedModes(gate_cfg.thresholds)
    /\ baseline_id \in {None, <<"base">>}
    \* else cmd_analyze raises "baseline run id is required"
    /\ (command = "analyze" /\ baseline_id = None) => mode # ""
    /\ history_summary = None
    /\ verdict = None /\ gate_eval = None /\ combined = None /\ exit_code = None
    /\ result = None /\ rule = None /\ metrics = None
    /\ inline_rules = None /\ error = None
    /\ NoThresholdCall

\* if baseline_id [and metrics_exist]: _analyze(...); ci: else baseline_id = None
CommandAnalyze ==
    /\ pc = "analyze"
    /\ IF baseline_id # None /\ metrics_exist
       THEN verdict' = analyze(current, baseline, rules) /\ baseline_id' = baseline_id
       ELSE verdict' = None /\ baseline_id' = IF command = "ci" THEN None ELSE baseline_id
    /\ pc' = "gate"
    /\ UNCHANGED <<rule, current, baseline, result, call,
                   metrics, gate_cfg, mode, history_summary, gate_eval,
                   rules, combined,
                   command, metrics_exist, returncode, args, analysis_cfg,
                   exit_code, inline_rules, error,
                   history, warmup, stored, appended, max_runs, run_id,
                   baseline_pointer, again, clock>>

\* if mode [and metrics_exist]: evaluate_gate(current_metrics, gate_cfg, mode, history_summary)
CommandGate ==
    /\ pc = "gate"
    /\ gate_eval' = IF mode # "" /\ metrics_exist
                    THEN evaluate_gate(current, gate_cfg, mode, history_summary)
                    ELSE None
    /\ pc' = "merge"
    /\ UNCHANGED <<rule, current, baseline, result, call,
                   metrics, gate_cfg, mode, history_summary,
                   rules, baseline_id, verdict, combined,
                   command, metrics_exist, returncode, args, analysis_cfg,
                   exit_code, inline_rules, error,
                   history, warmup, stored, appended, max_runs, run_id,
                   baseline_pointer, again, clock>>

\* mutant: the gate results are put first
result_sets_gate_first ==
    (IF gate_eval # None THEN <<gate_eval.results>> ELSE <<>>) \o
    (IF baseline_id # None THEN <<verdict.results>> ELSE <<>>)

\* the result sets of the command: the baseline results, then the gate results
result_sets ==
    (IF baseline_id # None THEN <<verdict.results>> ELSE <<>>) \o
    (IF gate_eval # None THEN <<gate_eval.results>> ELSE <<>>)

\* if result_sets: merge_results(result_sets); the command returns its exit code
CommandMerge ==
    /\ pc = "merge"
    /\ combined' = IF result_sets # <<>> THEN merge_results(result_sets) ELSE None
    /\ exit_code' = IF command = "analyze"
                    THEN analyze_exit(combined', args, analysis_cfg)
                    ELSE ci_exit(combined', args, analysis_cfg, returncode,
                                 metrics_exist, mode)
    /\ pc' = "done"
    /\ UNCHANGED <<rule, current, baseline, result, call,
                   metrics, gate_cfg, mode, history_summary, gate_eval,
                   rules, baseline_id, verdict,
                   command, metrics_exist, returncode, args, analysis_cfg,
                   inline_rules, error,
                   history, warmup, stored, appended, max_runs, run_id,
                   baseline_pointer, again, clock>>

NextCommand == CommandAnalyze \/ CommandGate \/ CommandMerge

SpecCommand == InitCommand /\ [][NextCommand]_vars

----------------------------------------------------------------------------
(* Driver of the analyze command over mappings with missing, null and
   non-numeric values *)

MissingCurrents ==
    {[m \in CommandMetrics |->
        CASE m = "p95_ms"     -> p
          [] m = "rps"        -> r
          [] m = "error_rate" -> e
          [] m = "requests"   -> q] :
     p \in {Absent, Null, Text, Num(1), Num(MaxVal)}, r \in {Absent, Text, Num(1)},
     e \in {Num(0), NumFrac(1, 100)}, q \in {Absent, Num(MaxVal)}}

MissingBaselines ==
    {[m \in CommandMetrics |-> IF m = "p95_ms" THEN p ELSE IF m = "rps" THEN Num(1) ELSE Absent] :
     p \in {Absent, Null, Text, Num(1)}}

InitMissing ==
    /\ NoHistory /\ NoStorage /\ NoSecondCall
    /\ pc = "analyze"
    /\ command = "analyze" /\ metrics_exist = TRUE /\ returncode = 0
    /\ args = [fail_on |-> None]
    /\ analysis_cfg = [fail_on |-> "absent"]
    /\ rules \in RuleSeqs(MaxRules)
    /\ current \in MissingCurrents
    /\ baseline \in MissingBaselines
    /\ gate_cfg \in [thresholds : CommandThresholds,
                      min_requests : {Absent, Num(1)},
                      warmup_seconds : {Absent}]
    /\ mode \in ResolvedModes(gate_cfg.thresholds)
    /\ baseline_id = <<"base">>
    /\ history_summary = None
    /\ verdict = None /\ gate_eval = None /\ combined = None /\ exit_code = None
    /\ result = None /\ rule = None /\ metrics = None
    /\ inline_rules = None /\ error = None
    /\ NoThresholdCall

SpecMissing == InitMissing /\ [][NextCommand]_vars

----------------------------------------------------------------------------
(* Driver of evaluate_gate under a warm-up: thresholds on the metrics the
   adjustment rewrites, summaries with totals that are no integers *)

WarmupThresholds ==
    {[kind |-> "absent", items |-> <<>>],
     [kind |-> "dict", items |-> <<<<"requests", Dict(Absent, Num(1), "decrease")>>,
                                   <<"failures", Bare(Num(0))>>,
                                   <<"error_rate", Bare(Num(10))>>>>]}

WarmupMetricNames == {"requests", "failures", "error_rate"}
WarmupMetricValues(m) ==
    CASE m = "requests"   -> {Absent, Num(2 * MaxVal)}
      [] m = "failures"   -> {Absent, Num(1)}
      [] m = "error_rate" -> {Absent, Num(25)}

\* summaries as summarize_history builds them from sums of rps and failures_s
SummaryOf(requests, failures) ==
    IF requests[1] <= 0
    THEN [requests |-> Float(0), failures |-> failures, error_rate |-> None]
    ELSE [requests |-> requests, failures |-> failures,
          error_rate |-> FMul(FDiv(failures, requests), Float(100))]
WarmupSummaries ==
    {None} \cup {SummaryOf(Frac(r, 2), Frac(f, 2)) :
                    r \in 0..(2 * MaxVal + 1), f \in 0..(MaxVal + 1)}

InitWarmup ==
    /\ NoHistory /\ NoStorage /\ NoSecondCall
    /\ pc = "start"
    /\ metrics \in {f \in [WarmupMetricNames ->
                             UNION {WarmupMetricValues(m) : m \in WarmupMetricNames}] :
                       \A m \in WarmupMetricNames : f[m] \in WarmupMetricValues(m)}
    /\ gate_cfg \in [thresholds : WarmupThresholds,
                      min_requests : {Absent, Num(1), Num(MaxVal)},
                      warmup_seconds : {Absent, Num(0), Num(10), NumFrac(1, 2)}]
    /\ mode \in GateModes
    /\ history_summary \in WarmupSummaries
    /\ gate_eval = None
    /\ result = None
    /\ NoRuleCall /\ NoThresholdCall /\ NoCommand

SpecWarmup == InitWarmup /\ [][NextGate]_vars

----------------------------------------------------------------------------
(* Driver of _resolve_gate_config *)

ModeRaw == {"absent", "null", "", "resilience", " Resilience ", "ACCEPTANCE", "bogus"}

GateSections ==
    {[kind |-> "absent", mode |-> "absent",
      thresholds |-> [kind |-> "absent", items |-> <<>>]]} \cup
    [kind : {"dict"}, mode : ModeRaw, thresholds : ThresholdsRaw]

InitResolve ==
    /\ NoHistory /\ NoStorage /\ NoSecondCall
    /\ pc = "start"
    /\ analysis_cfg \in [mode : ModeRaw, gate : GateSections]
    /\ mode = None /\ gate_cfg = None
    /\ metrics = None /\ history_summary = None /\ gate_eval = None
    /\ rules = None /\ baseline_id = None /\ verdict = None /\ combined = None
    /\ command = None /\ metrics_exist = None /\ returncode = None
    /\ args = None /\ exit_code = None /\ inline_rules = None /\ error = None
    /\ result = None
    /\ NoRuleCall /\ NoThresholdCall

ResolveGateConfig ==
    /\ pc = "start"
    /\ mode' = _resolve_gate_config(analysis_cfg)[1]
    /\ gate_cfg' = _resolve_gate_config(analysis_cfg)[2]
    /\ pc' = "done"
    /\ UNCHANGED <<rule, current, baseline, result, call,
                   metrics, history_summary, gate_eval,
                   rules, baseline_id, verdict, combined,
                   command, metrics_exist, returncode, args, analysis_cfg,
                   exit_code, inline_rules, error,
                   history, warmup, stored, appended, max_runs, run_id,
                   baseline_pointer, again, clock>>

NextResolve == ResolveGateConfig

SpecResolve == InitResolve /\ [][NextResolve]_vars

----------------------------------------------------------------------------
(* Driver of _analyze: the rules are built from the configuration, then
   evaluated *)

RuleEntries ==
    {[kind |-> "text", metric |-> "absent", mode |-> "absent", direction |-> "absent",
      warn |-> Absent, fail |-> Absent]} \cup
    [kind : {"dict"}, metric : {"p95_ms"}, mode : {"absolute", "absent"},
     direction : {"increase"},
     warn : {Absent, Null, Text, ListV, Num(1), NumText(1)},
     fail : {Absent, Text, Num(MaxVal)}]

RECURSIVE EntrySeqs(_)
EntrySeqs(n) ==
    IF n = 0 THEN {<<>>}
    ELSE LET shorter == EntrySeqs(n - 1)
         IN  shorter \cup {Append(q, e) : q \in {x \in shorter : Len(x) = n - 1},
                                          e \in RuleEntries}

InlineRules ==
    {[kind |-> k, items |-> <<>>] : k \in {"null", "dict"}} \cup
    {[kind |-> "list", items |-> q] : q \in EntrySeqs(MaxRules)}

InitRules ==
    /\ NoHistory /\ NoStorage /\ NoSecondCall
    /\ pc = "start"
    /\ inline_rules \in InlineRules
    /\ current \in {[m \in Metrics |-> v] : v \in {Absent, Num(1), Num(MaxVal)}}
    /\ baseline = [m \in Metrics |-> Absent]
    /\ rules = None /\ verdict = None /\ error = None
    /\ rule = None /\ result = None
    /\ baseline_id = None /\ combined = None
    /\ command = None /\ metrics_exist = None /\ returncode = None
    /\ args = None /\ analysis_cfg = None /\ exit_code = None
    /\ NoThresholdCall /\ NoGateCall

\* _analyze: load_rules raises before analyze is called
AnalyzeRun ==
    /\ pc = "start"
    /\ error'   = _analyze(current, baseline, inline_rules)[1]
    /\ rules'   = _analyze(current, baseline, inline_rules)[2]
    /\ verdict' = _analyze(current, baseline, inline_rules)[3]
    /\ pc' = "done"
    /\ UNCHANGED <<rule, current, baseline, result, call,
                   metrics, gate_cfg, mode, history_summary, gate_eval,
                   baseline_id, combined,
                   command, metrics_exist, returncode, args, analysis_cfg,
                   exit_code, inline_rules,
                   history, warmup, stored, appended, max_runs, run_id,
                   baseline_pointer, again, clock>>

NextRules == AnalyzeRun

SpecRules == InitRules /\ [][NextRules]_vars

----------------------------------------------------------------------------
(* Properties of evaluate_rule *)

\* what the claims call a numeric value: a number, or a string float() parses
IsNumeric(raw) == raw.kind \in {"num", "numtext"}
CurRaw  == current[rule.metric]
BaseRaw == baseline[rule.metric]

\* max(0, +-delta) >= t with delta = (c - b) / b * 100, in integers
MagnitudeGe(c, b, direction, t) ==
    LET signed == IF direction = "increase" THEN (c - b) * 100 ELSE (b - c) * 100
    IN  t <= 0 \/ (IF b > 0 THEN signed >= t * b ELSE signed <= t * b)

RelativeCase ==
    /\ pc = "done" /\ rule.mode = "relative"
    /\ IsNumeric(CurRaw) /\ IsNumeric(BaseRaw) /\ BaseRaw.v # 0

\* C1: a relative rule with numeric current and numeric non-zero baseline is
\* DEGRADATION iff magnitude >= fail, WARNING iff warn <= magnitude < fail,
\* PASS otherwise (both comparisons inclusive).
C1_RelativeStatus ==
    RelativeCase =>
        LET geFail == MagnitudeGe(CurRaw.v, BaseRaw.v, rule.direction, rule.fail[1])
            geWarn == MagnitudeGe(CurRaw.v, BaseRaw.v, rule.direction, rule.warn[1])
        IN  /\ result.status = "DEGRADATION" <=> geFail
            /\ result.status = "WARNING" <=> (geWarn /\ ~geFail)
            /\ result.status = "PASS" <=> (~geWarn /\ ~geFail)

\* a relative rule whose magnitude equals fail exactly (50% drop, fail = 50)
C1_Witness ==
    /\ RelativeCase /\ rule.direction = "decrease"
    /\ rule.fail = Float(50) /\ rule.warn = Float(1)
    /\ CurRaw.v = 1 /\ BaseRaw.v = 2
    /\ result.status = "DEGRADATION"

AbsoluteCase ==
    /\ pc = "done" /\ rule.mode = "absolute" /\ IsNumeric(CurRaw)
    /\ rule.direction \in {"increase", "decrease"}

\* C2: an absolute rule with numeric current: 'increase' is DEGRADATION iff
\* current >= fail and WARNING iff warn <= current and not current >= fail;
\* 'decrease' is DEGRADATION iff current <= fail and WARNING iff
\* fail < current <= warn; otherwise PASS.
C2_AbsoluteStatus ==
    AbsoluteCase =>
        LET c == CurRaw.v
            f == rule.fail[1]
            w == rule.warn[1]
            deg == IF rule.direction = "increase" THEN c >= f ELSE c <= f
            wrn == IF rule.direction = "increase" THEN w <= c /\ ~(c >= f)
                   ELSE f < c /\ c <= w
        IN  /\ result.status = "DEGRADATION" <=> deg
            /\ result.status = "WARNING" <=> wrn
            /\ result.status = "PASS" <=> (~deg /\ ~wrn)

\* a 'decrease' rule whose current value equals the warn floor
C2_Witness ==
    /\ AbsoluteCase /\ rule.direction = "decrease"
    /\ CurRaw.v = 1 /\ rule.warn = Float(1) /\ rule.fail = Float(0)
    /\ result.status = "WARNING"

\* C5: whatever the mode, a missing, null or non-numeric current value gives
\* SKIP with reason 'missing current value'.
C5_MissingCurrent ==
    (pc = "done" /\ ~IsNumeric(CurRaw)) =>
        /\ result.status = "SKIP"
        /\ result.reason = <<"missing current value">>

\* an unsupported mode and a relative rule without baseline still report the
\* current value as the missing one
C5_Witness ==
    /\ pc = "done" /\ CurRaw = Text /\ rule.mode = "None"
    /\ BaseRaw = Absent
    /\ result.reason = <<"missing current value">>

\* C6: a relative rule with numeric current and a missing, non-numeric or
\* zero baseline gives SKIP 'missing baseline value' with delta_percent null.
C6_MissingBaseline ==
    (/\ pc = "done" /\ rule.mode = "relative" /\ IsNumeric(CurRaw)
     /\ (~IsNumeric(BaseRaw) \/ BaseRaw.v = 0)) =>
        /\ result.status = "SKIP"
        /\ result.reason = <<"missing baseline value">>
        /\ result.delta_percent = None

\* a zero baseline under a non-zero current value
C6_Witness ==
    /\ pc = "done" /\ rule.mode = "relative"
    /\ CurRaw = Num(2) /\ BaseRaw = Num(0)
    /\ result.status = "SKIP" /\ result.delta_percent = None

----------------------------------------------------------------------------
(* Properties of _evaluate_threshold *)

\* the current value of the call is above the raw threshold x
Above(x) == call.current[1] * x.d > x.v * call.current[2]

IncreaseCase ==
    /\ pc = "done" /\ call # None
    /\ call.eligibility[1] /\ call.current # None
    /\ call.rule.direction \in {"absent", "", "increase"}

FailPresent  == IsNumeric(call.rule.fail)
WarnGiven    == IsNumeric(call.rule.warn)
WarnInferred ==
    /\ ~WarnGiven /\ FailPresent
    /\ call.metric_name \in ERROR_METRICS /\ call.mode = "resilience"
IncreaseDegraded == FailPresent /\ Above(call.rule.fail)
IncreaseWarned ==
    /\ ~IncreaseDegraded
    /\ \/ WarnGiven /\ Above(call.rule.warn)
       \/ WarnInferred /\ call.current[1] > 0

\* C3 as stated: in an eligible gate a threshold of direction 'increase' with
\* a numeric current value is DEGRADATION iff fail is present and
\* current > fail, WARNING iff not so and warn is present and current > warn,
\* else PASS.
C3_Original ==
    IncreaseCase =>
        /\ result.status = "DEGRADATION" <=> IncreaseDegraded
        /\ result.status = "WARNING" <=> IncreaseWarned
        /\ result.status = "PASS" <=> (~IncreaseDegraded /\ ~IncreaseWarned)

\* C3 amended: the same strict comparison, and PASS in the remaining cases
\* only when a warn or a fail threshold is present; with neither the result
\* is SKIP 'missing thresholds'.
C3_StrictIncrease ==
    IncreaseCase =>
        /\ result.status = "DEGRADATION" <=> IncreaseDegraded
        /\ result.status = "WARNING" <=> IncreaseWarned
        /\ result.status = "PASS" <=>
              (~IncreaseDegraded /\ ~IncreaseWarned /\ (FailPresent \/ WarnGiven))
        /\ (result.status = "SKIP" /\ result.reason = <<"missing thresholds">>) <=>
              (~FailPresent /\ ~WarnGiven)

\* error_rate_non_503 = 0 against fail = 0 passes
C3_Witness ==
    /\ IncreaseCase /\ call.metric_name = "error_rate_non_503"
    /\ call.current = Float(0) /\ call.rule.fail = Num(0) /\ call.rule.warn = Absent
    /\ call.rule.direction = "absent"
    /\ result.status = "PASS"

----------------------------------------------------------------------------
(* Properties of evaluate_gate *)

GateDone == pc = "done" /\ metrics # None /\ call = None

MinConfigured    == IsNumeric(gate_cfg.min_requests)
WarmupConfigured == IsNumeric(gate_cfg.warmup_seconds)
WarmupOn         == WarmupConfigured /\ gate_cfg.warmup_seconds.v # 0
\* the warm-up adjustment applies
Adjusted == WarmupOn /\ history_summary # None
\* the requests count the gate uses is known / its value
RequestsKnown == Adjusted \/ IsNumeric(metrics["requests"])
RequestsCount == IF Adjusted THEN history_summary.requests[1] ELSE metrics["requests"].v
MinUnmet == MinConfigured /\ (~RequestsKnown \/ RequestsCount < gate_cfg.min_requests.v)

AllSkippedFor(reason) ==
    \A i \in 1..Len(gate_eval.results) :
        /\ gate_eval.results[i].status = "SKIP"
        /\ gate_eval.results[i].reason = <<reason>>

\* C7: when min_requests is configured and the requests count used by the
\* gate is unknown or below it, every result is SKIP 'min_requests not met',
\* also when the warm-up history is missing at the same time.
C7_MinRequests ==
    (GateDone /\ gate_eval # None /\ MinUnmet) => AllSkippedFor("min_requests not met")

\* two thresholds with extreme values, no history for the warm-up and too few
\* requests
C7_Witness ==
    /\ GateDone /\ gate_eval # None /\ MinUnmet
    /\ WarmupOn /\ history_summary = None
    /\ metrics["requests"] = Num(0) /\ metrics["p95_ms"] = Num(MaxVal)
    /\ Len(gate_eval.results) = 2
    /\ gate_eval.results[2].reason = <<"min_requests not met">>

EligibilityReasons == {<<"min_requests not met">>, <<"missing stats history for warmup">>}

\* a verdict never mixes results skipped for ineligibility with other results
NoMixing ==
    (GateDone /\ gate_eval # None) =>
        ((\E i \in 1..Len(gate_eval.results) :
              gate_eval.results[i].reason \in EligibilityReasons)
         => \A i, j \in 1..Len(gate_eval.results) :
              /\ gate_eval.results[i].status = "SKIP"
              /\ gate_eval.results[i].reason \in EligibilityReasons
              /\ gate_eval.results[i].reason = gate_eval.results[j].reason)

\* C8 as stated: when warmup_seconds is configured and no history summary is
\* supplied, every result is SKIP with the eligibility reason.
C8_Original ==
    (GateDone /\ gate_eval # None /\ WarmupConfigured /\ history_summary = None) =>
        AllSkippedFor(IF MinUnmet THEN "min_requests not met"
                      ELSE "missing stats history for warmup")

\* C8 amended: when warmup_seconds is configured with a non-zero value and no
\* history summary is supplied, every result is SKIP with the eligibility
\* reason ('missing stats history for warmup' unless min_requests is also
\* unmet); and no verdict mixes ineligible results with evaluated ones.
C8_WarmupHistory ==
    /\ (GateDone /\ gate_eval # None /\ WarmupOn /\ history_summary = None) =>
            AllSkippedFor(IF MinUnmet THEN "min_requests not met"
                          ELSE "missing stats history for warmup")
    /\ NoMixing

\* a warm-up without history, min_requests met, values that would degrade
C8_Witness ==
    /\ GateDone /\ gate_eval # None /\ WarmupOn /\ history_summary = None
    /\ MinConfigured /\ ~MinUnmet
    /\ metrics["error_rate"] = NumFrac(1, 100)
    /\ Len(gate_eval.results) = 2
    /\ AllSkippedFor("missing stats history for warmup")

\* the entries of the thresholds mapping that are not null
Configured ==
    IF gate_cfg.thresholds.kind = "dict"
    THEN SelectSeq(gate_cfg.thresholds.items, LAMBDA it : it[2].kind # "null")
    ELSE <<>>

GateEligible == ~(WarmupOn /\ history_summary = None) /\ ~MinUnmet

\* C9: with no thresholds configured and mode 'acceptance' the gate evaluates
\* exactly one threshold, error_rate with fail 0 and no warn: in an eligible
\* gate error_rate > 0 gives DEGRADATION and error_rate = 0 gives PASS.
C9_AcceptanceDefault ==
    (GateDone /\ mode = "acceptance" /\ Configured = <<>>) =>
        /\ gate_eval # None
        /\ Len(gate_eval.results) = 1
        /\ LET r == gate_eval.results[1]
               er == metrics["error_rate"]
           IN  /\ r.metric = "gate.error_rate"
               /\ r.fail = Float(0) /\ r.warn = None /\ r.direction = "increase"
               /\ (~Adjusted /\ IsNumeric(er)) =>
                      (r.current # None /\ r.current[1] * er.d = er.v * r.current[2])
               /\ (GateEligible /\ r.current # None /\ r.current[1] > 0) =>
                      r.status = "DEGRADATION"
               /\ (GateEligible /\ r.current # None /\ r.current[1] = 0) =>
                      r.status = "PASS"

\* error_rate = 0.01 under the implicit threshold
C9_Witness ==
    /\ GateDone /\ mode = "acceptance" /\ gate_cfg.thresholds.kind = "absent"
    /\ GateEligible /\ ~Adjusted
    /\ metrics["error_rate"] = NumFrac(1, 100)
    /\ gate_eval.results[1].status = "DEGRADATION"

\* C10: evaluate_gate returns null iff no threshold entry is configured (the
\* mapping is absent, no mapping, empty or all null) and mode is not
\* 'acceptance'; otherwise the verdict has one result per configured entry,
\* in order (one for the implicit threshold), also when all are SKIP.
C10_NullOrVerdict ==
    GateDone =>
        /\ gate_eval = None <=> (Configured = <<>> /\ mode # "acceptance")
        /\ gate_eval # None =>
              IF Configured = <<>> THEN Len(gate_eval.results) = 1
              ELSE /\ Len(gate_eval.results) = Len(Configured)
                   /\ \A i \in 1..Len(Configured) :
                         gate_eval.results[i].metric = GateName(Configured[i][1])

\* a mapping with a null entry and a configured one, in an ineligible gate
C10_Witness ==
    /\ GateDone /\ gate_eval # None /\ mode = "resilience"
    /\ Len(gate_cfg.thresholds.items) = 2 /\ Len(Configured) = 1
    /\ Len(gate_eval.results) = 1
    /\ gate_eval.results[1].status = "SKIP"
    /\ gate_eval.summary.SKIP = 1

----------------------------------------------------------------------------
(* Properties of the verdicts *)

Rank(status) == CASE status = "PASS" -> 0
                  [] status = "WARNING" -> 1
                  [] status = "DEGRADATION" -> 2

\* v.status is the most severe status of v.results, SKIP left out
MostSevere(v) ==
    /\ v.status \in {"PASS", "WARNING", "DEGRADATION"}
    /\ \A i \in 1..Len(v.results) :
          v.results[i].status # "SKIP" => Rank(v.results[i].status) <= Rank(v.status)
    /\ \/ v.status = "PASS"
       \/ \E i \in 1..Len(v.results) : v.results[i].status = v.status

\* C4: the overall status of a verdict is the most severe status present
\* under PASS < WARNING < DEGRADATION, SKIP never raises it and a verdict of
\* SKIP results only (or of none) is PASS: for the verdict of analyze and
\* for the verdicts of the combiner.
C4_OverallStatus ==
    /\ verdict # None => MostSevere(verdict)
    /\ gate_eval # None => MostSevere(gate_eval)
    /\ combined # None => MostSevere(combined)

\* analyze over rules that are all skipped gives PASS, and the combiner
\* raises the combined verdict to the gate's DEGRADATION
C4_Witness ==
    /\ pc = "done" /\ verdict # None /\ combined # None
    /\ Len(verdict.results) = MaxRules
    /\ \A i \in 1..Len(verdict.results) : verdict.results[i].status = "SKIP"
    /\ verdict.status = "PASS"
    /\ \E i \in 1..Len(combined.results) : combined.results[i].status = "WARNING"
    /\ combined.status = "DEGRADATION"

----------------------------------------------------------------------------
(* Properties of the warn inference and of direction 'decrease' *)

ThresholdDone == pc = "done" /\ call # None
Evaluated == ThresholdDone /\ call.eligibility[1] /\ call.current # None
Decreasing == call.rule.direction \in {"decrease", "DECREASE"}
AtLeastWarning == result.status \in {"WARNING", "DEGRADATION"}

\* C11 as stated: in resilience mode an error metric whose threshold has a
\* fail value and no warn value gets warn 0, so that in an eligible gate any
\* non-zero current value gives WARNING or DEGRADATION; in acceptance mode and
\* for other metrics no warn is inferred.
C11_Original ==
    /\ (ThresholdDone /\ WarnInferred) => result.warn = Float(0)
    /\ (Evaluated /\ WarnInferred /\ call.current[1] # 0) => AtLeastWarning
    /\ (ThresholdDone /\ ~WarnGiven /\ ~WarnInferred) => result.warn = None

\* C11 amended: the inferred warn is 0; in an eligible gate any non-zero
\* current value gives at least a warning when the direction is not
\* 'decrease' (a value of 0 gives one only when it is above fail); under
\* direction 'decrease' the result is at least a warning iff the current
\* value is at most fail or at most 0; in acceptance mode and for other
\* metrics no warn is inferred.
C11_InferredWarn ==
    /\ (ThresholdDone /\ WarnInferred) => result.warn = Float(0)
    /\ (Evaluated /\ WarnInferred /\ ~Decreasing) =>
          (AtLeastWarning <=> (call.current[1] > 0 \/ Above(call.rule.fail)))
    /\ (Evaluated /\ WarnInferred /\ Decreasing) =>
          (AtLeastWarning <=> (call.current[1] <= 0 \/ ~Above(call.rule.fail)))
    /\ (ThresholdDone /\ ~WarnGiven /\ ~WarnInferred) => result.warn = None

\* error_rate_non_503 = 0.01 under fail = 1 and no warn
C11_Witness ==
    /\ Evaluated /\ WarnInferred /\ ~Decreasing
    /\ call.current = Frac(1, 100) /\ call.rule.fail = Num(1)
    /\ result.warn = Float(0) /\ result.status = "WARNING"

DecreaseCase == Evaluated /\ Decreasing
DecreaseDegraded == FailPresent /\ ~Above(call.rule.fail)
DecreaseWarned ==
    /\ ~DecreaseDegraded
    /\ \/ WarnGiven /\ ~Above(call.rule.warn)
       \/ WarnInferred /\ call.current[1] <= 0

\* C18 as stated: in an eligible gate a threshold of direction 'decrease'
\* with a numeric current value is DEGRADATION iff fail is present and
\* current <= fail, WARNING iff not so and warn is present and
\* current <= warn, else PASS.
C18_Original ==
    DecreaseCase =>
        /\ result.status = "DEGRADATION" <=> DecreaseDegraded
        /\ result.status = "WARNING" <=> DecreaseWarned
        /\ result.status = "PASS" <=> (~DecreaseDegraded /\ ~DecreaseWarned)

\* C18 amended: the same inclusive comparison, and PASS in the remaining
\* cases only when a warn or a fail threshold is present; with neither the
\* result is SKIP 'missing thresholds'.
C18_InclusiveDecrease ==
    DecreaseCase =>
        /\ result.status = "DEGRADATION" <=> DecreaseDegraded
        /\ result.status = "WARNING" <=> DecreaseWarned
        /\ result.status = "PASS" <=>
              (~DecreaseDegraded /\ ~DecreaseWarned /\ (FailPresent \/ WarnGiven))
        /\ (result.status = "SKIP" /\ result.reason = <<"missing thresholds">>) <=>
              (~FailPresent /\ ~WarnGiven)

\* a current value equal to fail, the direction written in capitals
C18_Witness ==
    /\ DecreaseCase /\ call.rule.direction = "DECREASE"
    /\ call.metric_name = "p95_ms"
    /\ call.current = Float(1) /\ call.rule.fail = Num(1) /\ call.rule.warn = Absent
    /\ result.status = "DEGRADATION"

----------------------------------------------------------------------------
(* Properties of the warm-up adjustment *)

\* int(warmup_seconds) is not zero
WarmupActive ==
    /\ IsNumeric(gate_cfg.warmup_seconds)
    /\ Abs(gate_cfg.warmup_seconds.v) >= gate_cfg.warmup_seconds.d
WarmupApplies ==
    GateDone /\ gate_eval # None /\ WarmupActive /\ history_summary # None

\* the integer nearest to x, the even one of the two when x is half-way
NearestEven(x) ==
    CHOOSE k \in -1..(MaxVal + 2) :
        LET gap == Abs(2 * x[1] - 2 * k * x[2])
        IN  gap < x[2] \/ (gap = x[2] /\ k % 2 = 0)

\* every result of the gate on the metric has this current value
CurrentOf(metric_name, value) ==
    \A i \in 1..Len(gate_eval.results) :
        gate_eval.results[i].metric = GateName(metric_name) =>
            gate_eval.results[i].current = value

WholeRun(metric_name) ==
    IF IsNumeric(metrics[metric_name])
    THEN Frac(metrics[metric_name].v, metrics[metric_name].d)
    ELSE None

\* C12 as stated: under a warm-up with a history summary the working
\* requests and failures are the summary's totals, error_rate is
\* failures / requests * 100 when requests is non-zero, requests_used and
\* failures_used equal the summary totals and are what min_requests is
\* compared with.
C12_Original ==
    WarmupApplies =>
        /\ gate_eval.gate.requests_used = history_summary.requests
        /\ gate_eval.gate.failures_used = history_summary.failures
        /\ CurrentOf("requests", history_summary.requests)
        /\ CurrentOf("failures", history_summary.failures)
        /\ history_summary.requests # Float(0) =>
              CurrentOf("error_rate", FMul(FDiv(history_summary.failures,
                                                history_summary.requests), Float(100)))
        /\ MinConfigured =>
              (AllSkippedFor("min_requests not met") <=>
                  FLt(history_summary.requests, Float(gate_cfg.min_requests.v)))

\* C12 amended: the totals are used after rounding to the nearest integer
\* (half-way values to the even one): requests_used, failures_used and the
\* working requests and failures are the rounded totals, error_rate is
\* rounded failures / rounded requests * 100 when the rounded requests is
\* non-zero and the whole-run value otherwise, and min_requests is compared
\* with the rounded requests.
C12_WarmupTotals ==
    WarmupApplies =>
        LET requests_used == NearestEven(history_summary.requests)
            failures_used == NearestEven(history_summary.failures)
        IN  /\ gate_eval.gate.requests_used = Float(requests_used)
            /\ gate_eval.gate.failures_used = Float(failures_used)
            /\ CurrentOf("requests", Float(requests_used))
            /\ CurrentOf("failures", Float(failures_used))
            /\ CurrentOf("error_rate",
                         IF requests_used # 0
                         THEN Frac(failures_used * 100, requests_used)
                         ELSE WholeRun("error_rate"))
            /\ MinConfigured =>
                  (AllSkippedFor("min_requests not met") <=>
                      requests_used < gate_cfg.min_requests.v)

\* totals of 2.5 requests and 1.5 failures: 2 and 2 are used, error_rate 100
C12_Witness ==
    /\ WarmupApplies
    /\ history_summary.requests = Frac(5, 2) /\ history_summary.failures = Frac(3, 2)
    /\ metrics["error_rate"] = Num(25) /\ metrics["requests"] = Num(2 * MaxVal)
    /\ Len(gate_eval.results) = 3
    /\ gate_eval.gate.requests_used = Float(2)
    /\ gate_eval.results[3].current = Float(100)
    /\ gate_eval.results[3].status = "DEGRADATION"

----------------------------------------------------------------------------
(* Properties of the commands *)

CommandDone == pc = "done" /\ combined # None

BaselineResults == IF verdict # None THEN verdict.results ELSE <<>>
GateResults     == IF gate_eval # None THEN gate_eval.results ELSE <<>>

\* C13: the combined results are the concatenation of the result lists, every
\* result once and in order: in the analyze and ci commands the results of
\* the baseline comparison, then the results of the gate.
C13_Concatenation ==
    CommandDone =>
        /\ Len(combined.results) = Len(BaselineResults) + Len(GateResults)
        /\ \A i \in 1..Len(BaselineResults) : combined.results[i] = BaselineResults[i]
        /\ \A j \in 1..Len(GateResults) :
              combined.results[Len(BaselineResults) + j] = GateResults[j]

\* the ci command with two different rule results and two gate results
C13_Witness ==
    /\ CommandDone /\ command = "ci"
    /\ Len(BaselineResults) = 2 /\ Len(GateResults) = 2
    /\ BaselineResults[1] # BaselineResults[2]
    /\ combined.results[2].mode = "absolute"
    /\ combined.results[3].metric = "gate.error_rate"
    /\ combined.results[4].metric = "gate.p95_ms"

StatusKeys == {"PASS", "WARNING", "DEGRADATION", "SKIP"}
CountOf(v, st) == Len(SelectSeq(v.results, LAMBDA r : r.status = st))
SummaryCounts(v) ==
    /\ DOMAIN v.summary = StatusKeys
    /\ \A st \in StatusKeys : v.summary[st] = CountOf(v, st)
    /\ v.summary.PASS + v.summary.WARNING + v.summary.DEGRADATION + v.summary.SKIP
          = Len(v.results)

\* C14: in every verdict the summary has exactly the keys PASS, WARNING,
\* DEGRADATION and SKIP, each count is the number of results with that
\* status and the counts add up to the number of results.
C14_SummaryCounts ==
    /\ verdict # None => SummaryCounts(verdict)
    /\ gate_eval # None => SummaryCounts(gate_eval)
    /\ combined # None => SummaryCounts(combined)

\* a combined verdict with one result of each status
C14_Witness ==
    /\ CommandDone /\ verdict # None
    /\ verdict.summary = [PASS |-> 0, WARNING |-> 1, DEGRADATION |-> 0, SKIP |-> 1]
    /\ combined.summary = [PASS |-> 1, WARNING |-> 1, DEGRADATION |-> 1, SKIP |-> 1]

\* the metric of the i-th threshold the gate evaluates
GateMetric(i) ==
    effective_thresholds(_parse_thresholds(gate_cfg.thresholds), mode)[i][1]

\* the mapping with a number in the place of every unavailable value
Filled(map) == [m \in DOMAIN map |-> IF IsNumeric(map[m]) THEN map[m] ELSE Num(1)]

\* the gate's requests count is unavailable while min_requests is configured
RequestsMissing == IsNumeric(gate_cfg.min_requests) /\ ~IsNumeric(current["requests"])

\* C15: whatever values are missing, null or non-numeric, analyze and
\* evaluate_gate return a verdict with one result per rule or threshold; a
\* rule or threshold whose value is unavailable is SKIP with a reason and
\* reports no value (never 0), and every other result is what it would be
\* if no value were unavailable.
C15_MissingData ==
    /\ (CommandDone /\ verdict # None) =>
          /\ Len(verdict.results) = Len(rules)
          /\ \A i \in 1..Len(rules) :
                LET r   == rules[i]
                    res == verdict.results[i]
                    cur_missing  == ~IsNumeric(current[r.metric])
                    base_missing == r.mode = "relative" /\ ~IsNumeric(baseline[r.metric])
                IN  /\ res.status \in StatusKeys
                    /\ cur_missing =>
                          /\ res.status = "SKIP" /\ res.reason # None
                          /\ res.current = None
                    /\ base_missing =>
                          /\ res.status = "SKIP" /\ res.reason # None
                          /\ res.baseline = None
                    /\ (~cur_missing /\ ~base_missing) =>
                          /\ res = evaluate_rule(r, Filled(current), baseline)
                          /\ IsNumeric(baseline[r.metric]) =>
                                res = evaluate_rule(r, Filled(current), Filled(baseline))
    /\ (CommandDone /\ gate_eval # None) =>
          \A i \in 1..Len(gate_eval.results) :
              LET res == gate_eval.results[i]
                  cur_missing == ~IsNumeric(current[GateMetric(i)])
              IN  /\ res.status \in StatusKeys
                  /\ (cur_missing \/ RequestsMissing) =>
                        res.status = "SKIP" /\ res.reason # None
                  /\ cur_missing => res.current = None
                  /\ (~cur_missing /\ ~RequestsMissing) =>
                        res = evaluate_gate(Filled(current), gate_cfg, mode,
                                            history_summary).results[i]

\* a non-numeric rps under a rule that fails at 0 is skipped, next to a
\* p95_ms rule that degrades and a gate that passes
C15_Witness ==
    /\ CommandDone /\ verdict # None /\ gate_eval # None
    /\ current["rps"] = Text /\ current["p95_ms"] = Num(MaxVal)
    /\ baseline["p95_ms"] = Null
    /\ Len(rules) = 2
    /\ rules[1].metric = "rps" /\ rules[2].metric = "p95_ms" /\ rules[2].mode = "absolute"
    /\ verdict.results[1].status = "SKIP"
    /\ verdict.results[1].reason = <<"missing current value">>
    /\ verdict.results[2].status = "DEGRADATION"
    /\ gate_eval.status = "PASS"

\* the fail_on setting in force
FailOn ==
    IF args.fail_on # None THEN args.fail_on[1]
    ELSE IF analysis_cfg.fail_on # "absent" THEN analysis_cfg.fail_on
    ELSE "DEGRADATION"

\* the command derives its exit code from the combined verdict
ExitFromVerdict ==
    /\ CommandDone
    /\ command = "ci" => (metrics_exist /\ ~(returncode # 0 /\ mode = ""))

\* C16: the exit code derived from a verdict is 1 iff fail_on is WARNING and
\* the status is WARNING or DEGRADATION, or fail_on is DEGRADATION and the
\* status is DEGRADATION, and 0 otherwise; fail_on is DEGRADATION when
\* neither --fail-on nor analysis.fail_on is given; PASS gives 0.
C16_ExitCode ==
    /\ ExitFromVerdict =>
          /\ exit_code \in {0, 1}
          /\ exit_code = 1 <=>
                \/ FailOn = "WARNING" /\ combined.status \in {"WARNING", "DEGRADATION"}
                \/ FailOn = "DEGRADATION" /\ combined.status = "DEGRADATION"
          /\ combined.status = "PASS" => exit_code = 0
    /\ (ExitFromVerdict /\ args.fail_on = None /\ analysis_cfg.fail_on = "absent") =>
          (exit_code = 1 <=> combined.status = "DEGRADATION")

\* analysis.fail_on = WARNING and a verdict of WARNING
C16_Witness ==
    /\ ExitFromVerdict /\ command = "analyze"
    /\ args.fail_on = None /\ analysis_cfg.fail_on = "WARNING"
    /\ combined.status = "WARNING"
    /\ exit_code = 1

----------------------------------------------------------------------------
(* Properties of _resolve_gate_config *)

ResolveDone == pc = "done" /\ analysis_cfg # None

\* the mode the configuration names: analysis.mode, else gate.mode
ExplicitMode ==
    IF analysis_cfg.mode \notin {"absent", "null", ""} THEN analysis_cfg.mode
    ELSE IF analysis_cfg.gate.kind = "dict" THEN analysis_cfg.gate.mode
    ELSE "absent"
Names(text, m) ==
    text \in (IF m = "resilience" THEN {"resilience", " Resilience "}
              ELSE {"acceptance", "ACCEPTANCE"})
NonEmptyThresholds ==
    /\ analysis_cfg.gate.kind = "dict"
    /\ analysis_cfg.gate.thresholds.kind = "dict"
    /\ Len(analysis_cfg.gate.thresholds.items) > 0

\* C17: the resolved mode is the explicit mode (analysis.mode before
\* gate.mode, letter case ignored) when it is 'resilience' or 'acceptance',
\* otherwise 'resilience' when a non-empty thresholds mapping exists,
\* otherwise absent; 'resilience' without a non-empty thresholds mapping
\* becomes absent, 'acceptance' is kept.
C17_ModeResolution ==
    ResolveDone =>
        mode = IF Names(ExplicitMode, "acceptance") THEN "acceptance"
               ELSE IF Names(ExplicitMode, "resilience")
               THEN (IF NonEmptyThresholds THEN "resilience" ELSE "")
               ELSE IF NonEmptyThresholds THEN "resilience"
               ELSE ""

\* analysis.mode in capitals wins over gate.mode, without any threshold
C17_Witness ==
    /\ ResolveDone
    /\ analysis_cfg.mode = "ACCEPTANCE" /\ analysis_cfg.gate.kind = "dict"
    /\ analysis_cfg.gate.mode = "resilience"
    /\ analysis_cfg.gate.thresholds.kind = "null"
    /\ mode = "acceptance"

----------------------------------------------------------------------------
(* Properties of unsupported modes and of malformed rules *)

\* C19: a rule whose mode is neither 'relative' nor 'absolute' and whose
\* current value is numeric gives SKIP 'unsupported rule mode', whatever the
\* baseline, the direction and the thresholds.
C19_UnsupportedMode ==
    (/\ pc = "done" /\ rule # None
     /\ rule.mode \notin {"relative", "absolute"} /\ IsNumeric(CurRaw)) =>
        /\ result.status = "SKIP"
        /\ result.reason = <<"unsupported rule mode">>

\* the mode written with a capital, values that would degrade
C19_Witness ==
    /\ pc = "done" /\ rule # None
    /\ rule.mode = "Relative" /\ rule.direction = "increase"
    /\ rule.warn = Float(0) /\ rule.fail = Float(1)
    /\ CurRaw = Num(MaxVal) /\ BaseRaw = Num(1)
    /\ result.status = "SKIP" /\ result.reason = <<"unsupported rule mode">>

RulesDone == pc = "done" /\ inline_rules # None

BadEntry(e) == e.kind = "dict" /\ (~IsNumeric(e.warn) \/ ~IsNumeric(e.fail))
HasBadEntry ==
    /\ inline_rules.kind = "list"
    /\ \E i \in 1..Len(inline_rules.items) : BadEntry(inline_rules.items[i])
Entries == SelectSeq(inline_rules.items, LAMBDA e : e.kind = "dict")

\* C20: when a rule entry has a missing or non-numeric warn or fail,
\* building the rules raises an error, no rule is evaluated and no result or
\* verdict is produced; otherwise no error is raised and the verdict has one
\* result per rule entry.
C20_MalformedRules ==
    RulesDone =>
        /\ HasBadEntry => (error # None /\ rules = None /\ verdict = None)
        /\ ~HasBadEntry =>
              /\ error = None /\ verdict # None
              /\ Len(verdict.results) = Len(Entries)

\* a well-formed entry followed by one with a non-numeric fail
C20_Witness ==
    /\ RulesDone /\ Len(inline_rules.items) = 2
    /\ ~BadEntry(inline_rules.items[1]) /\ inline_rules.items[1].kind = "dict"
    /\ inline_rules.items[2].warn = Num(1) /\ inline_rules.items[2].fail = Text
    /\ current["p95_ms"] = Num(MaxVal)
    /\ error = <<"ValueError">> /\ verdict = None

----------------------------------------------------------------------------
(* Driver of analyze called twice on the same rules and mappings *)

InitAnalyze ==
    /\ NoHistory /\ NoStorage
    /\ pc = "first"
    /\ rules \in RuleSeqs(MaxRules)
    /\ current \in MissingCurrents
    /\ baseline \in MissingBaselines
    /\ clock = 0
    /\ verdict = None /\ again = None
    /\ rule = None /\ result = None
    /\ NoThresholdCall /\ NoGateCall
    /\ baseline_id = None /\ combined = None
    /\ command = None /\ metrics_exist = None /\ returncode = None
    /\ args = None /\ analysis_cfg = None /\ exit_code = None
    /\ inline_rules = None /\ error = None

\* utc_now() moves on, or not, between two readings
Tick == clock' \in {clock, clock + 1}

AnalyzeFirst ==
    /\ pc = "first"
    /\ verdict' = evaluated(analyze(current, baseline, rules), clock)
    /\ Tick
    /\ pc' = "again"
    /\ UNCHANGED <<rule, current, baseline, result, call,
                   metrics, gate_cfg, mode, history_summary, gate_eval,
                   rules, baseline_id, combined,
                   command, metrics_exist, returncode, args, analysis_cfg,
                   exit_code, inline_rules, error,
                   history, warmup, stored, appended, max_runs, run_id,
                   baseline_pointer, again>>

AnalyzeAgain ==
    /\ pc = "again"
    /\ again' = evaluated(analyze(current, baseline, rules), clock)
    /\ Tick
    /\ pc' = "done"
    /\ UNCHANGED <<rule, current, baseline, result, call,
                   metrics, gate_cfg, mode, history_summary, gate_eval,
                   rules, baseline_id, verdict, combined,
                   command, metrics_exist, returncode, args, analysis_cfg,
                   exit_code, inline_rules, error,
                   history, warmup, stored, appended, max_runs, run_id,
                   baseline_pointer>>

NextAnalyze == AnalyzeFirst \/ AnalyzeAgain

SpecAnalyze == InitAnalyze /\ [][NextAnalyze]_vars

----------------------------------------------------------------------------
(* Properties of analyze *)

\* the rules in the opposite order
Reversed(rs) == [j \in 1..Len(rs) |-> rs[Len(rs) + 1 - j]]

\* the result analyze gives at place j of the list rs, or None
ResultAt(rs, j) ==
    LET other == analyze(current, baseline, rs).results
    IN  IF j \in DOMAIN other THEN other[j] ELSE None

----------------------------------------------------------------------------
(* gate.py: summarize_history *)

\* x or 0.0
or_zero(x) == IF x = None \/ x = Float(0) THEN Float(0) ELSE x

\* mutant: the sample taken exactly warmup_seconds after the first is discarded too
in_warmup_inclusive(timestamp, start_ts, warmup_seconds) ==
    FLe(FSub(timestamp, start_ts), warmup_seconds)

\* if timestamp - start_ts < warmup_seconds: continue
in_warmup(timestamp, start_ts, warmup_seconds) ==
    FLt(FSub(timestamp, start_ts), warmup_seconds)

\* the loop over the rows from row i on: <<total_requests, total_failures>>
RECURSIVE sum_rows(_, _, _, _, _)
sum_rows(rows, i, start_ts, warmup_seconds, totals) ==
    IF i > Len(rows) THEN totals
    ELSE LET row == rows[i]
             timestamp == IF row.timestamp = None THEN Float(i - 1) ELSE row.timestamp
         IN  IF in_warmup(timestamp, start_ts, warmup_seconds)
             THEN sum_rows(rows, i + 1, start_ts, warmup_seconds, totals)
             ELSE LET rps == or_zero(_safe_float(row.rps))
                      failures_s == or_zero(_safe_float(row.failures_s))
                  IN  sum_rows(rows, i + 1, start_ts, warmup_seconds,
                               <<FAdd(totals[1], rps), FAdd(totals[2], failures_s)>>)

summarize_history(rows, warmup_seconds) ==
    IF rows = <<>> THEN None
    ELSE LET start_ts == IF rows[1].timestamp = None THEN Float(0) ELSE rows[1].timestamp
             totals == sum_rows(rows, 1, start_ts, warmup_seconds, <<Float(0), Float(0)>>)
         IN  SummaryOf(totals[1], totals[2])

----------------------------------------------------------------------------
(* Driver of summarize_history: the rows of one stats history *)

\* seconds since the first sample, and the timestamps a history may start at
Times == {0, 5, 15}
Starts == {0, 100}
RpsRaw == {Text, Num(10), Num(20), Num(30)}
FailuresRaw == {Num(0), Num(2), Num(3)}
WarmupSeconds == {0, 5, 10, 20}

\* the elements of a set of numbers in ascending order
RECURSIVE Ascending(_)
Ascending(S) ==
    IF S = {} THEN <<>>
    ELSE LET least == CHOOSE x \in S : \A y \in S : x <= y
         IN  <<least>> \o Ascending(S \ {least})

\* the histories sampled at the given times: with timestamps, or without any
Histories(times, start, stamped) ==
    LET ts == Ascending(times)
    IN  {[i \in 1..Len(ts) |->
            [timestamp |-> IF stamped THEN Float(start + ts[i]) ELSE None,
             rps |-> v[i][1], failures_s |-> v[i][2]]] :
         v \in [1..Len(ts) -> RpsRaw \X FailuresRaw]}

InitHistory ==
    /\ NoStorage /\ NoSecondCall
    /\ pc = "start"
    /\ \E times \in SUBSET Times, start \in Starts, stamped \in BOOLEAN :
          history \in Histories(times, start, stamped)
    /\ warmup \in {Float(w) : w \in WarmupSeconds}
    /\ history_summary = None
    /\ metrics = None /\ gate_cfg = None /\ mode = None /\ gate_eval = None
    /\ result = None
    /\ NoRuleCall /\ NoThresholdCall /\ NoCommand

Summarize ==
    /\ pc = "start"
    /\ history_summary' = summarize_history(history, warmup)
    /\ pc' = "done"
    /\ UNCHANGED <<rule, current, baseline, result, call,
                   metrics, gate_cfg, mode, gate_eval,
                   rules, baseline_id, verdict, combined,
                   command, metrics_exist, returncode, args, analysis_cfg,
                   exit_code, inline_rules, error,
                   history, warmup, stored, appended, max_runs, run_id,
                   baseline_pointer, again, clock>>

NextHistory == Summarize

SpecHistory == InitHistory /\ [][NextHistory]_vars

----------------------------------------------------------------------------
(* Properties of summarize_history *)

Summarized == pc = "done" /\ history # None
Stamped == \A i \in 1..Len(history) : history[i].timestamp # None

\* the samples taken at least warmup_seconds after the first one
Remaining ==
    {i \in 1..Len(history) :
        FGe(FSub(history[i].timestamp, history[1].timestamp), warmup)}

NumberOr0(raw) == IF IsNumeric(raw) THEN Frac(raw.v, raw.d) ELSE Float(0)

\* the sum of a column over a set of samples
RECURSIVE SumOver(_, _)
SumOver(S, column) ==
    IF S = {} THEN Float(0)
    ELSE LET i == CHOOSE x \in S : TRUE
         IN  FAdd(NumberOr0(history[i][column]), SumOver(S \ {i}, column))

Sample(t, rps, fail) ==
    [timestamp |-> Float(t), rps |-> Num(rps), failures_s |-> Num(fail)]
ExampleHistory == <<Sample(0, 10, 0), Sample(5, 20, 2), Sample(15, 30, 3)>>

\* C22: summarize_history discards every sample whose timestamp is less than
\* warmup_seconds after the first sample's timestamp and sums rps and
\* failures_s over the remaining samples; error_rate is failures / requests *
\* 100 when the summed requests is positive and null when it is zero; the
\* samples (0, 10, 0), (5, 20, 2), (15, 30, 3) with warmup_seconds = 10 give
\* requests 30, failures 3 and error_rate 10.
C22_WarmupSummary ==
    (Summarized /\ Stamped) =>
        LET requests == SumOver(Remaining, "rps")
            failures == SumOver(Remaining, "failures_s")
        IN  /\ history_summary.requests = requests
            /\ history_summary.failures = failures
            /\ FGt(requests, Float(0)) =>
                  history_summary.error_rate =
                      FMul(FDiv(failures, requests), Float(100))
            /\ requests = Float(0) => history_summary.error_rate = None
            /\ (history = ExampleHistory /\ warmup = Float(10)) =>
                  history_summary = [requests |-> Float(30), failures |-> Float(3),
                                     error_rate |-> Float(10)]

\* the example of the claim
C22_Witness ==
    /\ Summarized /\ history = ExampleHistory /\ warmup = Float(10)
    /\ history_summary.requests = Float(30)
    /\ history_summary.error_rate = Float(10)

----------------------------------------------------------------------------
(* Properties of the baseline in absolute mode and of movement in the good
   direction in relative mode *)

\* the baseline mappings a call of evaluate_rule may be given
BaselinesFor(r) ==
    {[m \in Metrics |-> IF m = r.metric THEN bv ELSE db] : bv \in Raw, db \in Decoy}

\* C23: in absolute mode the status and the reason are the same for every
\* baseline mapping, a missing one included; when the current value is
\* numeric, delta_percent is (current - baseline) / baseline * 100 if the
\* baseline value is numeric and non-zero, and null otherwise.
C23_AbsoluteBaseline ==
    (pc = "done" /\ rule # None /\ rule.mode = "absolute") =>
        /\ \A other \in BaselinesFor(rule) :
              LET res == evaluate_rule(rule, current, other)
              IN  res.status = result.status /\ res.reason = result.reason
        /\ IsNumeric(CurRaw) =>
              IF IsNumeric(BaseRaw) /\ BaseRaw.v # 0
              THEN result.delta_percent =
                      Frac((CurRaw.v * BaseRaw.d - BaseRaw.v * CurRaw.d) * 100,
                           BaseRaw.v * CurRaw.d)
              ELSE result.delta_percent = None

\* a current value twice the baseline: DEGRADATION by the threshold, delta 100
C23_Witness ==
    /\ pc = "done" /\ rule # None /\ rule.mode = "absolute"
    /\ rule.direction = "increase" /\ rule.fail = Float(1)
    /\ CurRaw = Num(2) /\ BaseRaw = Num(1)
    /\ result.status = "DEGRADATION" /\ result.delta_percent = Float(100)

\* the sign of (current - baseline) / baseline * 100
DeltaSign ==
    LET num == CurRaw.v * BaseRaw.d - BaseRaw.v * CurRaw.d
    IN  IF num = 0 THEN 0
        ELSE IF (num > 0) = (BaseRaw.v > 0) THEN 1 ELSE -1

\* a relative rule whose metric did not move in the bad direction
GoodMovement ==
    /\ RelativeCase
    /\ \/ rule.direction = "increase" /\ DeltaSign <= 0
       \/ rule.direction = "decrease" /\ DeltaSign >= 0

MagnitudeOfCall ==
    _relative_change(Frac(CurRaw.v, CurRaw.d), Frac(BaseRaw.v, BaseRaw.d),
                     rule.direction)[2]

\* C24 as stated: movement in the good direction gives magnitude 0 and a
\* status that is neither WARNING nor DEGRADATION.
C24_Original ==
    GoodMovement =>
        /\ MagnitudeOfCall = Float(0)
        /\ result.status \notin {"WARNING", "DEGRADATION"}

\* C24: for a relative rule with numeric current and numeric non-zero
\* baseline, movement in the good direction gives magnitude 0; the status is
\* PASS when warn and fail are both above 0, DEGRADATION when fail is 0 or
\* less, and WARNING when warn is 0 or less and fail is above 0.
C24_GoodDirection ==
    GoodMovement =>
        /\ MagnitudeOfCall = Float(0)
        /\ result.status = IF rule.fail[1] <= 0 THEN "DEGRADATION"
                           ELSE IF rule.warn[1] <= 0 THEN "WARNING"
                           ELSE "PASS"
        /\ result.reason = None

\* p95 halved under direction 'increase', thresholds above 0
C24_Witness ==
    /\ GoodMovement /\ rule.direction = "increase"
    /\ CurRaw = Num(1) /\ BaseRaw = Num(2)
    /\ rule.warn = Float(1) /\ rule.fail = Float(50)
    /\ result.delta_percent = Float(-50) /\ result.status = "PASS"

----------------------------------------------------------------------------
(* Properties of the order of the checks and of the reason of a result *)

NoThresholds == ~FailPresent /\ ~WarnGiven

\* C25: _evaluate_threshold checks in a fixed order and gives one reason:
\* an ineligible gate gives SKIP with the eligibility reason, also when the
\* current value or the thresholds are missing; else a missing current value
\* gives SKIP 'missing current value', also when both thresholds are missing;
\* else no warn (given or inferred) and no fail gives SKIP 'missing
\* thresholds'; only then the value is compared and the status is PASS,
\* WARNING or DEGRADATION.
C25_CheckOrder ==
    ThresholdDone =>
        IF ~call.eligibility[1]
        THEN result.status = "SKIP" /\ result.reason = call.eligibility[2]
        ELSE IF call.current = None
        THEN result.status = "SKIP" /\ result.reason = <<"missing current value">>
        ELSE IF NoThresholds
        THEN result.status = "SKIP" /\ result.reason = <<"missing thresholds">>
        ELSE /\ result.status \in {"PASS", "WARNING", "DEGRADATION"}
             /\ result.reason = None

\* min_requests not met, no current value and no thresholds: the first wins
C25_Witness ==
    /\ ThresholdDone /\ ~call.eligibility[1]
    /\ call.current = None /\ NoThresholds
    /\ result.status = "SKIP" /\ result.reason = <<"min_requests not met">>

----------------------------------------------------------------------------
(* Driver of both evaluators: a call of evaluate_rule or of _evaluate_threshold *)

InitResults == Init \/ InitThreshold

NextResults ==
    \/ rule # None /\ EvaluateRule
    \/ call # None /\ EvaluateThreshold

SpecResults == InitResults /\ [][NextResults]_vars

\* C26: in every result of evaluate_rule and of _evaluate_threshold the
\* reason is non-null if and only if the status is SKIP; a result with status
\* PASS, WARNING or DEGRADATION has a null reason.
C26_ReasonIffSkip ==
    pc = "done" =>
        /\ result.status \in {"PASS", "WARNING", "DEGRADATION", "SKIP"}
        /\ result.reason # None <=> result.status = "SKIP"

\* a threshold without warn and fail in an eligible gate: SKIP with its reason
C26_Witness ==
    /\ ThresholdDone /\ call.eligibility[1] /\ call.current # None
    /\ result.status = "SKIP" /\ result.reason = <<"missing thresholds">>

----------------------------------------------------------------------------
(* storage.py: Storage.append_to_history *)

\* runs = [r for r in runs if r.get("run_id") != run_id]
without_run(runs, id) == SelectSeq(runs, LAMBDA r : r.run_id # id)

\* runs[-n:] for n > 0
last_runs(runs, n) ==
    IF Len(runs) <= n THEN runs ELSE SubSeq(runs, Len(runs) - n + 1, Len(runs))

\* mutant: the entry is appended without removing the one of the same run
append_to_history_keeps_old(runs, id, ms, n) ==
    LET added == Append(runs, [run_id |-> id, p95_ms |-> Get(ms, "p95_ms")])
    IN  IF n > 0 THEN last_runs(added, n) ELSE added

\* the runs list saved to history.json; the entry copies run_id and the
\* metrics of the run (p95_ms stands for all the copied keys)
append_to_history(runs, id, ms, n) ==
    LET entry == [run_id |-> id, p95_ms |-> Get(ms, "p95_ms")]
        added == Append(without_run(runs, id), entry)
    IN  IF n > 0 THEN last_runs(added, n) ELSE added

----------------------------------------------------------------------------
(* Driver of append_to_history: runs appended to one history.json *)

RunIds == {"run-a", "run-b", "run-c"}
RunMetrics == {[m \in {"p95_ms"} |-> v] : v \in {Null, Num(1)}}
MaxRunsValues == {-1, 0, 1, 2}

InitStorage ==
    /\ NoHistory /\ NoSecondCall
    /\ pc = "append"
    /\ stored = <<>>        \* no history.json yet: load_history gives {"runs": []}
    /\ appended = <<>>
    /\ max_runs \in MaxRunsValues
    /\ run_id = None /\ baseline_pointer = None
    /\ result = None
    /\ NoRuleCall /\ NoThresholdCall /\ NoGateCall /\ NoCommand

AppendToHistory ==
    /\ pc = "append"
    /\ Len(appended) < MaxAppends
    /\ \E id \in RunIds, ms \in RunMetrics :
          /\ stored' = append_to_history(stored, id, ms, max_runs)
          /\ appended' = Append(appended, [run_id |-> id, p95_ms |-> ms["p95_ms"]])
    /\ UNCHANGED <<pc, rule, current, baseline, result, call,
                   metrics, gate_cfg, mode, history_summary, gate_eval,
                   rules, baseline_id, verdict, combined,
                   command, metrics_exist, returncode, args, analysis_cfg,
                   exit_code, inline_rules, error,
                   history, warmup, max_runs, run_id,
                   baseline_pointer, again, clock>>

NextStorage == AppendToHistory

SpecStorage == InitStorage /\ [][NextStorage]_vars

----------------------------------------------------------------------------
(* Properties of append_to_history *)

\* the calls that are the most recent append of their run, in call order
RECURSIVE LatestFrom(_)
LatestFrom(i) ==
    IF i > Len(appended) THEN <<>>
    ELSE IF \E j \in (i + 1)..Len(appended) : appended[j].run_id = appended[i].run_id
    THEN LatestFrom(i + 1)
    ELSE <<appended[i]>> \o LatestFrom(i + 1)
Latest == LatestFrom(1)

\* a sequence without its first k elements
Drop(q, k) == SubSeq(q, k + 1, Len(q))

\* C27: after any sequence of append_to_history calls with the same max_runs
\* the stored history has no two entries with the same run_id; with
\* max_runs > 0 it holds at most max_runs entries: the most recent appends of
\* the runs, in that order, without the oldest ones; the run appended last is
\* at the end with the entry of that call; with max_runs <= 0 nothing is
\* trimmed.
C27_History ==
    pc = "append" =>
        /\ \A i, j \in 1..Len(stored) :
              stored[i].run_id = stored[j].run_id => i = j
        /\ max_runs > 0 => Len(stored) <= max_runs
        /\ \E k \in 0..Len(Latest) :
              /\ stored = Drop(Latest, k)
              /\ k = IF max_runs > 0 /\ Len(Latest) > max_runs
                     THEN Len(Latest) - max_runs ELSE 0
        /\ appended # <<>> => stored[Len(stored)] = appended[Len(appended)]

\* run-a, run-b, then run-a again with another value, max_runs = 2: run-a's
\* entry is replaced and stands last
C27_Witness ==
    /\ pc = "append" /\ max_runs = 2
    /\ Len(appended) = 3
    /\ appended[1] = [run_id |-> "run-a", p95_ms |-> Null]
    /\ appended[2].run_id = "run-b"
    /\ appended[3] = [run_id |-> "run-a", p95_ms |-> Num(1)]
    /\ Len(stored) = 2
    /\ stored[1].run_id = "run-b" /\ stored[2] = appended[3]

----------------------------------------------------------------------------
(* cli.py, storage.py: the baseline of the ci command *)

\* Storage.set_baseline: the payload saved to baseline.json (set_at left out)
set_baseline(id) == [run_id |-> id]

\* Storage.get_baseline: None without a baseline.json, else data.get("run_id")
get_baseline(pointer) == IF pointer = None THEN None ELSE pointer.run_id

\* mutant: the pointer is not written before the baseline id is resolved
pointer_after_run_unwritten(a, code, id, pointer) == pointer

\* if args.set_baseline and run_result.get("returncode") == 0: storage.set_baseline(run_id)
pointer_after_run(a, code, id, pointer) ==
    IF a.set_baseline /\ code = 0 THEN set_baseline(id) ELSE pointer

\* args.baseline or analysis_cfg.get("baseline") or storage.get_baseline()
resolve_baseline_id(a, cfg, pointer) ==
    IF a.baseline # None THEN a.baseline
    ELSE IF Given(cfg.baseline) THEN <<cfg.baseline>>
    ELSE get_baseline(pointer)

\* _analyze: the metrics file of the baseline run, {} when there is none
baseline_metrics_of(bid, id, cur, base_file) ==
    LET file == IF bid = id THEN cur ELSE base_file
    IN  IF file # None THEN file ELSE [m \in CommandMetrics |-> Absent]

----------------------------------------------------------------------------
(* Driver of the ci command from the load run to the exit code.  Until the
   baseline id is resolved, `baseline` holds the metrics file of the run
   "base" (None: no such file); from then on, the mapping _analyze loads. *)

CiCurrents ==
    {[m \in CommandMetrics |->
        CASE m = "p95_ms"     -> p
          [] m = "rps"        -> Num(1)
          [] m = "error_rate" -> Num(0)
          [] m = "requests"   -> Num(MaxVal)] :
     p \in {Absent, Num(0), Num(1), Num(MaxVal)}}

CiBaseFiles ==
    {None, [m \in CommandMetrics |-> IF m \in {"p95_ms", "rps"} THEN Num(1) ELSE Absent]}

\* no thresholds, or a mapping whose only entry is null
CiThresholds ==
    {[kind |-> "absent", items |-> <<>>],
     [kind |-> "dict", items |-> <<<<"error_rate", CfgNull>>>>]}

InitCi ==
    /\ NoHistory /\ NoSecondCall
    /\ stored = None /\ appended = None /\ max_runs = None
    /\ pc = "run"
    /\ command = "ci"
    /\ run_id = <<"run">>
    /\ baseline_pointer \in {None, set_baseline(<<"base">>)}
    /\ metrics_exist \in BOOLEAN
    /\ returncode \in ReturnCodes
    /\ args \in [fail_on : {None}, set_baseline : BOOLEAN, baseline : {None, <<"base">>}]
    /\ analysis_cfg \in [fail_on : FailOnCfgs, baseline : {"absent", "base"}]
    /\ rules \in RuleSeqs(MaxRules)
    /\ IF metrics_exist THEN current \in CiCurrents ELSE current = None
    /\ baseline \in CiBaseFiles
    /\ gate_cfg \in [thresholds : CiThresholds,
                      min_requests : {Absent}, warmup_seconds : {Absent}]
    /\ mode \in ResolvedModes(gate_cfg.thresholds)
    /\ baseline_id = None
    /\ history_summary = None
    /\ verdict = None /\ gate_eval = None /\ combined = None /\ exit_code = None
    /\ result = None /\ rule = None /\ metrics = None
    /\ inline_rules = None /\ error = None
    /\ NoThresholdCall

\* the load run is over; --set-baseline writes the pointer
CiRun ==
    /\ pc = "run"
    /\ baseline_pointer' = pointer_after_run(args, returncode, run_id, baseline_pointer)
    /\ pc' = "resolve"
    /\ UNCHANGED <<rule, current, baseline, result, call,
                   metrics, gate_cfg, mode, history_summary, gate_eval,
                   rules, baseline_id, verdict, combined,
                   command, metrics_exist, returncode, args, analysis_cfg,
                   exit_code, inline_rules, error,
                   history, warmup, stored, appended, max_runs, run_id,
                   again, clock>>

\* the baseline id is resolved and its metrics file is what _analyze will load
CiResolve ==
    /\ pc = "resolve"
    /\ baseline_id' = resolve_baseline_id(args, analysis_cfg, baseline_pointer)
    /\ baseline' = baseline_metrics_of(baseline_id', run_id, current, baseline)
    /\ pc' = "analyze"
    /\ UNCHANGED <<rule, current, result, call,
                   metrics, gate_cfg, mode, history_summary, gate_eval,
                   rules, verdict, combined,
                   command, metrics_exist, returncode, args, analysis_cfg,
                   exit_code, inline_rules, error,
                   history, warmup, stored, appended, max_runs, run_id,
                   baseline_pointer, again, clock>>

NextCi == CiRun \/ CiResolve \/ CommandAnalyze \/ CommandGate \/ CommandMerge

SpecCi == InitCi /\ [][NextCi]_vars

----------------------------------------------------------------------------
(* Properties of the ci command *)

CiAnalyzed == pc \in {"gate", "merge", "done"} /\ run_id # None

\* --set-baseline on a load run that returned 0, no baseline id configured
SetsOwnBaseline ==
    /\ args.set_baseline /\ returncode = 0
    /\ args.baseline = None /\ ~Given(analysis_cfg.baseline)

\* C28: in the ci command the baseline pointer is written before the
\* baseline id is resolved: with --set-baseline, a load run that returned 0
\* and no baseline id from --baseline or analysis.baseline, the analysis
\* (made when the run has a metrics file) uses the run's own id as baseline
\* id and the run's own metrics as baseline, so every relative rule with a
\* numeric non-zero current value has delta_percent 0.
C28_SelfBaseline ==
    (CiAnalyzed /\ SetsOwnBaseline) =>
        /\ baseline_pointer = [run_id |-> run_id]
        /\ metrics_exist =>
              /\ baseline_id = run_id
              /\ baseline = current
              /\ verdict # None /\ Len(verdict.results) = Len(rules)
              /\ \A i \in 1..Len(rules) :
                    (/\ rules[i].mode = "relative"
                     /\ IsNumeric(current[rules[i].metric])
                     /\ current[rules[i].metric].v # 0) =>
                        verdict.results[i].delta_percent = Float(0)

\* a relative rule on p95_ms compared with the run's own value
C28_Witness ==
    /\ CiAnalyzed /\ SetsOwnBaseline /\ metrics_exist /\ pc = "done"
    /\ Len(rules) = 1 /\ rules[1].mode = "relative"
    /\ current["p95_ms"] = Num(MaxVal)
    /\ baseline_id = run_id
    /\ verdict.results[1].delta_percent = Float(0)
    /\ verdict.results[1].status = "PASS"

CiDone == pc = "done" /\ run_id # None

\* what a verdict's status and fail_on give
FromVerdict ==
    IF \/ FailOn = "WARNING" /\ combined.status \in {"WARNING", "DEGRADATION"}
       \/ FailOn = "DEGRADATION" /\ combined.status = "DEGRADATION"
    THEN 1 ELSE 0

NoMetricsFile == ~metrics_exist
LoadRunFailedNoGate == metrics_exist /\ returncode # 0 /\ mode = ""

\* C29 as stated: the exit code of ci is non-zero without a metrics file (the
\* return code of the load run, or 1 when that is 0); it is the return code
\* of the load run when that is non-zero and no gate mode is resolved; in
\* every other case it is what the combined verdict's status and fail_on
\* give, so that a non-zero return code of the load run is replaced by 0
\* only by a verdict below fail_on.
C29_Original ==
    CiDone =>
        /\ NoMetricsFile =>
              exit_code # 0 /\ exit_code = IF returncode # 0 THEN returncode ELSE 1
        /\ LoadRunFailedNoGate => exit_code = returncode
        /\ (~NoMetricsFile /\ ~LoadRunFailedNoGate) =>
              /\ combined # None => exit_code = FromVerdict
              /\ (returncode # 0 /\ exit_code = 0) => combined # None

----------------------------------------------------------------------------
(* Properties of a warm-up summary without requests *)

NoRequestsAfterWarmup == WarmupApplies /\ history_summary.requests = Float(0)

\* the results of the gate on the metric
ResultsOn(metric_name) ==
    {i \in 1..Len(gate_eval.results) : gate_eval.results[i].metric = GateName(metric_name)}

\* C30: when the warm-up adjustment applies and the summary's requests total
\* is zero, requests_used is 0 and the working error_rate stays the whole-run
\* value; with min_requests not configured and a numeric whole-run error
\* rate, a threshold on error_rate is compared with that value and is not
\* skipped.
C30_ZeroRequestsSummary ==
    NoRequestsAfterWarmup =>
        /\ gate_eval.gate.requests_used = Float(0)
        /\ CurrentOf("error_rate", WholeRun("error_rate"))
        /\ (~MinConfigured /\ WholeRun("error_rate") # None) =>
              \A i \in ResultsOn("error_rate") :
                 /\ gate_eval.results[i].status \in {"PASS", "WARNING", "DEGRADATION"}
                 /\ gate_eval.results[i].reason = None

\* no request after the warm-up, whole-run error rate 25 above the fail level
C30_Witness ==
    /\ NoRequestsAfterWarmup /\ ~MinConfigured
    /\ history_summary.failures = Float(0)
    /\ metrics["error_rate"] = Num(25)
    /\ gate_eval.gate.requests_used = Float(0)
    /\ ResultsOn("error_rate") # {}
    /\ \A i \in ResultsOn("error_rate") :
          /\ gate_eval.results[i].current = Float(25)
          /\ gate_eval.results[i].status = "DEGRADATION"

====
